---- MODULE Spec2Model ----
(***************************************************************************)
(* A model of the TwoThreeLibrary book store: a data file of fixed-size    *)
(* Book records and an index file holding a 2-3 tree of Node23 pages.      *)
(*                                                                         *)
(* The index file is modelled as the sequence of its 32-bit words, so that *)
(* a node is the eight words found at a byte offset and the header is the  *)
(* first three words.  The stream position of the index FILE is threaded   *)
(* through every operation, because fseek to a negative offset fails and   *)
(* the following fread/fwrite then acts at the position the stream already *)
(* had.  A read that delivers fewer bytes than asked leaves the rest of    *)
(* the destination uninitialised: those values are drawn from a bounded    *)
(* set (the parameter g of the operators below).                           *)
(***************************************************************************)
EXTENDS Integers, Sequences, FiniteSets, TLC

VARIABLES
    indexFile,   \* words of TwoThreeTree.bin
    dataFile,    \* [header, slots] of books.bin
    crashed,     \* the process died (unbounded recursion)
    last,        \* what the last operation was given and what it returned
    inserted,    \* history: the keys handed to insertKey so far
    removed,     \* history: removeKey has returned 0 at least once
    direct       \* history: insertKey was called without addBookAux

vars == <<indexFile, dataFile, crashed, last, inserted, removed, direct>>

----------------------------------------------------------------------------
(* Sizes of the on-disk structures, in bytes.                              *)

SizeofWord == 4
SizeofNode23 == 32
SizeofIndexFileHeader == 12
SizeofBookDataFileHeader == 8
SizeofBook == 432

(* Bounds of the model.                                                    *)

MaxNodes == 5            \* the index file is not grown beyond this many nodes
MaxSlots == 4            \* the data file is not grown beyond this many record slots

Keys == {10, 50, 100}    \* the book codes offered to the operations
Titles == {1}            \* the payload of a record (first word of its title)

NoKey == -1              \* the sentinel for an absent key, child or pointer

----------------------------------------------------------------------------
(* Node23 and IndexFileHeader, and their word images.                      *)

Node23(n, lk, rk, lb, rb, lc, mc, rc) ==
    [nKeys |-> n, left_key |-> lk, right_key |-> rk, leftBook |-> lb,
     rightBook |-> rb, left_child |-> lc, middle_child |-> mc, right_child |-> rc]

NodeWords(node) ==
    <<node.nKeys, node.left_key, node.right_key, node.leftBook,
      node.rightBook, node.left_child, node.middle_child, node.right_child>>

IndexFileHeader(r, f, h) ==
    [rootAddress |-> r, firstEmptyPosition |-> f, headEmptyPosition |-> h]

HeaderWords(header) ==
    <<header.rootAddress, header.firstEmptyPosition, header.headEmptyPosition>>

(* Values an uninitialised int may hold, and uninitialised nodes.          *)

BigInt == 1000           \* stands for the values above every key and offset

UninitInts == {NoKey, BigInt} \cup Keys

UninitNodes ==
    { Node23(n, k, k, NoKey, NoKey, c, c, c) :
        n \in {0, 1, 2}, k \in UninitInts, c \in {NoKey, SizeofIndexFileHeader} }

NoUninit == [node |-> Node23(0, NoKey, NoKey, NoKey, NoKey, NoKey, NoKey, NoKey), int |-> NoKey]

----------------------------------------------------------------------------
(* stdio on the index file.  f is the word sequence, pos the byte position. *)

\* a local variable: K applied to the value of v, which is evaluated once
With(v, K(_)) == CHOOSE r \in { K(e) : e \in {v} } : TRUE

Min(a, b) == IF a < b THEN a ELSE b
Max(a, b) == IF a < b THEN b ELSE a

FileSize(f) == SizeofWord * Len(f)

\* fseek(file, offset, SEEK_SET): fails and leaves the position for offset < 0
fseekSet(pos, offset) == IF offset < 0 THEN pos ELSE offset

\* fread of one Node23 at pos: the words the file holds, the rest stays
\* uninitialised (g.node).  A position that is not word aligned delivers
\* bytes of two words mixed: modelled as uninitialised.
freadNode(f, pos, g) ==
    LET w == pos \div SizeofWord
        aligned == pos % SizeofWord = 0
        word(i) == IF aligned /\ w + i <= Len(f) THEN f[w + i] ELSE NodeWords(g.node)[i]
        full == aligned /\ pos + SizeofNode23 <= FileSize(f)
    IN [node |-> Node23(word(1), word(2), word(3), word(4), word(5), word(6), word(7), word(8)),
        pos |-> Max(pos, Min(pos + SizeofNode23, FileSize(f))),
        uninit |-> IF full THEN {} ELSE {"node"}]

\* fwrite of the words ws at pos: overwrites, extends, and zero-fills a gap.
\* At a position that is not word aligned every word touched holds mixed
\* bytes afterwards: modelled as g.int.
fwriteWords(f, pos, ws, g) ==
    LET aligned == pos % SizeofWord = 0
        w == pos \div SizeofWord
        n == IF aligned THEN Len(ws) ELSE Len(ws) + 1
        written == IF aligned THEN ws ELSE [j \in 1..n |-> g.int]
        padded == IF Len(f) < w THEN f \o [j \in 1..(w - Len(f)) |-> 0] ELSE f
    IN [f |-> SubSeq(padded, 1, w) \o written \o SubSeq(padded, w + n + 1, Len(padded)),
        pos |-> pos + SizeofWord * Len(ws),
        uninit |-> IF aligned THEN {} ELSE {"int"}]

\* one fwrite, for the record of the writes of an operation: the file, the
\* function that makes it, what it writes and the byte position it writes at
Write(file, by, what, at) == <<[file |-> file, by |-> by, what |-> what, at |-> at]>>

\* loadNode23(indexFile, offset)
loadNode23(f, pos, offset, g) == freadNode(f, fseekSet(pos, offset), g)

\* saveNode(indexFile, offset, node)
saveNode(f, pos, offset, node, g) == fwriteWords(f, fseekSet(pos, offset), NodeWords(node), g)

\* readFileHeader(file, &header, sizeof(IndexFileHeader))
readFileHeader(f) == IndexFileHeader(f[1], f[2], f[3])

\* saveHeader that writes -1 where the root address belongs
saveHeader_RootAddressLost(f, header, g) ==
    fwriteWords(f, 0, HeaderWords([header EXCEPT !.rootAddress = -1]), g)

\* saveHeader(file, header, sizeof(IndexFileHeader))
saveHeader(f, header, g) == fwriteWords(f, 0, HeaderWords(header), g)

\* getRootAddress(file)
getRootAddress(f) == readFileHeader(f).rootAddress

\* createIndexFileHeader(file) on the empty file
createIndexFileHeader == HeaderWords(IndexFileHeader(-1, 0, -1))

\* createBookDataFileHeader(file) on the empty file
createBookDataFileHeader == [firstEmptyPosition |-> 0, headEmptyPosition |-> -1]

----------------------------------------------------------------------------
(* Tree search.                                                            *)

\* searchNode(file, root, key).  seen holds the <<root, position>> pairs of
\* the frames below: the file does not change during a search, so a frame
\* that repeats a pair recurses forever (overflow: the stack is exhausted).
\* loads is the sequence of offsets handed to loadNode23.
RECURSIVE searchNode(_, _, _, _, _, _)
searchNode(f, pos, root, key, g, seen) ==
    IF <<root, pos>> \in seen
    THEN [ret |-> -1, pos |-> pos, loads |-> <<>>, overflow |-> TRUE, uninit |-> {}]
    ELSE With(loadNode23(f, pos, root, g), LAMBDA ld :
         With(ld.node, LAMBDA node :
            IF node.left_key = key \/ (node.nKeys = 2 /\ node.right_key = key)
            THEN [ret |-> root, pos |-> ld.pos, loads |-> <<root>>,
                  overflow |-> FALSE, uninit |-> ld.uninit]
            ELSE With(searchNode(f, ld.pos,
                                 IF key < node.left_key THEN node.left_child
                                 ELSE IF node.nKeys = 1 \/ key < node.right_key
                                      THEN node.middle_child
                                      ELSE node.right_child,
                                 key, g, seen \cup {<<root, pos>>}),
                      LAMBDA r :
                    [r EXCEPT !.loads = <<root>> \o @, !.uninit = @ \cup ld.uninit])))

\* twoThreeTreeSearch(file, key)
twoThreeTreeSearch(f, key, g) ==
    LET root == getRootAddress(f)
    IN IF root = -1
       THEN [ret |-> -1, pos |-> SizeofIndexFileHeader, loads |-> <<>>,
             overflow |-> FALSE, uninit |-> {}]
       ELSE searchNode(f, SizeofIndexFileHeader, root, key, g, {})

----------------------------------------------------------------------------
(* Tree insertion.                                                         *)

\* createNode23 with one fault: a node that has children is written with the
\* first node of the file as its left child.
createNode23_LeftChildIsFirstNode(f, pos, header, node, g) ==
    With([node EXCEPT !.left_child = IF @ = -1 THEN -1 ELSE SizeofIndexFileHeader],
         LAMBDA written :
    IF header.headEmptyPosition # -1
    THEN With(loadNode23(f, pos, header.headEmptyPosition, g), LAMBDA freeNode :
         With([header EXCEPT !.headEmptyPosition = freeNode.node.left_child], LAMBDA h2 :
         With(saveNode(f, freeNode.pos, h2.headEmptyPosition, written, g), LAMBDA w1 :
         With(fwriteWords(w1.f, 0, HeaderWords(h2), g), LAMBDA w2 :
            [f |-> w2.f, pos |-> w2.pos, header |-> h2, ret |-> h2.headEmptyPosition,
             uninit |-> freeNode.uninit \cup w1.uninit,
             writes |-> Write("index", "createNode23", "node",
                              fseekSet(freeNode.pos, h2.headEmptyPosition))
                        \o Write("index", "createNode23", "header", 0)]))))
    ELSE With(saveNode(f, FileSize(f), FileSize(f), written, g), LAMBDA w1 :
         With(fwriteWords(w1.f, 0, HeaderWords(header), g), LAMBDA w2 :
            [f |-> w2.f, pos |-> w2.pos, header |-> header, ret |-> FileSize(f),
             uninit |-> w1.uninit,
             writes |-> Write("index", "createNode23", "node", FileSize(f))
                        \o Write("index", "createNode23", "header", 0)])))

\* createNode23(indexFile, leftKey, ..., nKeys, header): node holds the
\* eight fields.  With a free node the head is advanced first and the node
\* is then written at the NEW head (lines 96-99).
createNode23(f, pos, header, node, g) ==
    IF header.headEmptyPosition # -1
    THEN With(loadNode23(f, pos, header.headEmptyPosition, g), LAMBDA freeNode :
         With([header EXCEPT !.headEmptyPosition = freeNode.node.left_child], LAMBDA h2 :
         With(saveNode(f, freeNode.pos, h2.headEmptyPosition, node, g), LAMBDA w1 :
         With(fwriteWords(w1.f, 0, HeaderWords(h2), g), LAMBDA w2 :
            [f |-> w2.f, pos |-> w2.pos, header |-> h2, ret |-> h2.headEmptyPosition,
             uninit |-> freeNode.uninit \cup w1.uninit,
             writes |-> Write("index", "createNode23", "node",
                              fseekSet(freeNode.pos, h2.headEmptyPosition))
                        \o Write("index", "createNode23", "header", 0)]))))
    ELSE With(saveNode(f, FileSize(f), FileSize(f), node, g), LAMBDA w1 :
         With(fwriteWords(w1.f, 0, HeaderWords(header), g), LAMBDA w2 :
            [f |-> w2.f, pos |-> w2.pos, header |-> header, ret |-> FileSize(f),
             uninit |-> w1.uninit,
             writes |-> Write("index", "createNode23", "node", FileSize(f))
                        \o Write("index", "createNode23", "header", 0)]))

\* addKeyToNodeWithOneKey(node, key, bookPosition)
addKeyToNodeWithOneKey(node, key, bookPosition) ==
    IF node.left_key < key
    THEN [node EXCEPT !.right_key = key, !.rightBook = bookPosition, !.nKeys = 2]
    ELSE [node EXCEPT !.right_key = node.left_key, !.rightBook = node.leftBook,
                      !.left_key = key, !.leftBook = bookPosition, !.nKeys = 2]

\* isLeafNode(node)
isLeafNode(node) == node.left_child = -1

\* splitNode that, for a key below left_key, leaves left_key in the node
splitNode_LeftKeyKept(f, pos, header, parentNodeOffset, parentNode, key, subarvoreOffset, leftBookOffset, rightBookOffset, g) ==
    IF key > parentNode.right_key
    THEN With(createNode23(f, pos, header,
                  Node23(1, key, -1, rightBookOffset, -1, subarvoreOffset, -1, -1), g),
              LAMBDA c :
            [f |-> c.f, pos |-> c.pos, header |-> c.header, ret |-> c.ret,
             promotedKey |-> parentNode.right_key, uninit |-> c.uninit, writes |-> c.writes,
             parentNode |-> [parentNode EXCEPT !.nKeys = 1, !.right_key = -1, !.rightBook = -1,
                                               !.right_child = c.ret, !.middle_child = -1]])
    ELSE With(createNode23(f, pos, header,
                  Node23(1, parentNode.right_key, -1, parentNode.rightBook, -1, -1, -1, -1), g),
              LAMBDA c :
            IF key >= parentNode.left_key
            THEN [f |-> c.f, pos |-> c.pos, header |-> c.header, ret |-> c.ret,
                  promotedKey |-> key, uninit |-> c.uninit, writes |-> c.writes,
                  parentNode |-> [parentNode EXCEPT !.nKeys = 1, !.right_key = -1,
                                     !.rightBook = -1, !.right_child = -1,
                                     !.middle_child = c.ret]]
            ELSE [f |-> c.f, pos |-> c.pos, header |-> c.header, ret |-> c.ret,
                  promotedKey |-> parentNode.left_key, uninit |-> c.uninit, writes |-> c.writes,
                  parentNode |-> [parentNode EXCEPT !.nKeys = 1,
                                     !.right_key = -1, !.rightBook = -1, !.right_child = -1,
                                     !.middle_child = c.ret]])

\* splitNode(indexFile, parentNodeOffset, parentNode, key, promotedKey,
\*           subarvoreOffset, header, leftBookOffset, rightBookOffset).
\* parentNode is changed in memory only: nothing here writes it.
splitNode(f, pos, header, parentNodeOffset, parentNode, key, subarvoreOffset, leftBookOffset, rightBookOffset, g) ==
    IF key > parentNode.right_key
    THEN With(createNode23(f, pos, header,
                  Node23(1, key, -1, rightBookOffset, -1, subarvoreOffset, -1, -1), g),
              LAMBDA c :
            [f |-> c.f, pos |-> c.pos, header |-> c.header, ret |-> c.ret,
             promotedKey |-> parentNode.right_key, uninit |-> c.uninit, writes |-> c.writes,
             parentNode |-> [parentNode EXCEPT !.nKeys = 1, !.right_key = -1, !.rightBook = -1,
                                               !.right_child = c.ret, !.middle_child = -1]])
    ELSE With(createNode23(f, pos, header,
                  Node23(1, parentNode.right_key, -1, parentNode.rightBook, -1, -1, -1, -1), g),
              LAMBDA c :
            IF key >= parentNode.left_key
            THEN [f |-> c.f, pos |-> c.pos, header |-> c.header, ret |-> c.ret,
                  promotedKey |-> key, uninit |-> c.uninit, writes |-> c.writes,
                  parentNode |-> [parentNode EXCEPT !.nKeys = 1, !.right_key = -1,
                                     !.rightBook = -1, !.right_child = -1,
                                     !.middle_child = c.ret]]
            ELSE [f |-> c.f, pos |-> c.pos, header |-> c.header, ret |-> c.ret,
                  promotedKey |-> parentNode.left_key, uninit |-> c.uninit, writes |-> c.writes,
                  parentNode |-> [parentNode EXCEPT !.nKeys = 1, !.left_key = key,
                                     !.right_key = -1, !.rightBook = -1, !.right_child = -1,
                                     !.middle_child = c.ret]])

\* insertKeyAux(indexFile, parentNodeOffset, parentNode, key, promotedKey,
\*              subarvoreOffset, header, leftBookOffset, rightBookOffset).
\* promoted is [key, set]: *promotedKey and whether anything assigned it.
\* seen holds the <<offset, position>> pairs of the frames above; the file
\* is not written during the descent, so a repeated pair never returns.
RECURSIVE insertKeyAux(_, _, _, _, _, _, _, _, _, _, _, _)
insertKeyAux(f, pos, header, parentNodeOffset, parentNode, key, promoted, subarvoreOffset, leftBookOffset, rightBookOffset, g, seen) ==
    LET absorb(f1, pos1, h1, k, pr, un, wr) ==
            With(addKeyToNodeWithOneKey(parentNode, k, leftBookOffset), LAMBDA n2 :
            With(saveNode(f1, pos1, parentNodeOffset, n2, g), LAMBDA w :
               [f |-> w.f, pos |-> w.pos, header |-> h1, ret |-> parentNodeOffset,
                promoted |-> pr, parentNode |-> n2, uninit |-> un \cup w.uninit,
                overflow |-> FALSE,
                writes |-> wr \o Write("index", "insertKeyAux", "node",
                                       fseekSet(pos1, parentNodeOffset))]))
        split(f1, pos1, h1, k, un, wr) ==
            With(splitNode(f1, pos1, h1, parentNodeOffset, parentNode, k, subarvoreOffset,
                           leftBookOffset, rightBookOffset, g), LAMBDA s :
               [f |-> s.f, pos |-> s.pos, header |-> s.header, ret |-> s.ret,
                promoted |-> [key |-> s.promotedKey, set |-> TRUE],
                parentNode |-> s.parentNode, uninit |-> un \cup s.uninit, overflow |-> FALSE,
                writes |-> wr \o s.writes])
        child == IF key < parentNode.left_key THEN parentNode.left_child
                 ELSE IF parentNode.nKeys = 1 \/ key < parentNode.right_key
                      THEN parentNode.middle_child
                      ELSE parentNode.right_child
    IN IF isLeafNode(parentNode)
       THEN IF parentNode.nKeys = 1
            THEN absorb(f, pos, header, key, promoted, {}, <<>>)
            ELSE split(f, pos, header, key, {}, <<>>)
       ELSE IF <<child, pos>> \in seen
            THEN [f |-> f, pos |-> pos, header |-> header, ret |-> -1, promoted |-> promoted,
                  parentNode |-> parentNode, uninit |-> {}, overflow |-> TRUE,
                  writes |-> <<>>]
            ELSE With(loadNode23(f, pos, child, g), LAMBDA auxTree :
                 With(insertKeyAux(f, auxTree.pos, header, child, auxTree.node, key,
                                   promoted, subarvoreOffset, leftBookOffset,
                                   rightBookOffset, g, seen \cup {<<child, pos>>}),
                      LAMBDA r :
                 With(r.uninit \cup auxTree.uninit, LAMBDA un :
                    IF r.overflow \/ r.ret = -1
                    THEN [r EXCEPT !.ret = -1, !.parentNode = parentNode, !.uninit = un]
                    ELSE IF parentNode.nKeys = 1
                         THEN absorb(r.f, r.pos, r.header, r.ret, r.promoted, un, r.writes)
                         ELSE split(r.f, r.pos, r.header, r.ret, un, r.writes))))

\* insertKey whose new root has the old root as both of its children
insertKey_NewRootOverOldRootTwice(f, key, bookPosition, header, g) ==
    With(getRootAddress(f), LAMBDA root :
       IF root = -1
       THEN With(createNode23(f, SizeofIndexFileHeader, header,
                              Node23(1, key, -1, bookPosition, -1, -1, -1, -1), g),
                 LAMBDA c :
            With([c.header EXCEPT !.rootAddress = c.ret], LAMBDA h2 :
            With(saveHeader(c.f, h2, g), LAMBDA w :
               [f |-> w.f, pos |-> w.pos, header |-> h2, ret |-> c.ret,
                uninit |-> c.uninit, overflow |-> FALSE,
                writes |-> c.writes \o Write("index", "insertKey", "header", 0),
                rootNode |-> Node23(1, key, -1, bookPosition, -1, -1, -1, -1),
                promoted |-> [key |-> g.int, set |-> FALSE]])))
       ELSE With(loadNode23(f, SizeofIndexFileHeader, root, g), LAMBDA rootNode :
            With(insertKeyAux(f, rootNode.pos, header, root, rootNode.node, key,
                              [key |-> g.int, set |-> FALSE], -1, bookPosition, -1, g,
                              {<<root, SizeofIndexFileHeader>>}), LAMBDA a :
            With(a.uninit \cup rootNode.uninit, LAMBDA un :
               IF a.overflow
               THEN [f |-> a.f, pos |-> a.pos, header |-> a.header, ret |-> 0,
                     uninit |-> un, overflow |-> TRUE, writes |-> a.writes,
                     rootNode |-> a.parentNode, promoted |-> a.promoted]
               ELSE IF a.ret # -1
               THEN With(createNode23(a.f, a.pos, a.header,
                             Node23(1, a.promoted.key, -1, -1, -1, root, root, -1), g),
                         LAMBDA c :
                    With([c.header EXCEPT !.rootAddress = c.ret], LAMBDA h2 :
                    With(saveHeader(c.f, h2, g), LAMBDA w :
                       [f |-> w.f, pos |-> w.pos, header |-> h2, ret |-> 0,
                        uninit |-> un \cup c.uninit
                                   \cup (IF a.promoted.set THEN {} ELSE {"int"}),
                        overflow |-> FALSE,
                        writes |-> a.writes \o c.writes
                                   \o Write("index", "insertKey", "header", 0),
                        rootNode |-> a.parentNode, promoted |-> a.promoted])))
               ELSE With(saveNode(a.f, a.pos, root, a.parentNode, g), LAMBDA w :
                       [f |-> w.f, pos |-> w.pos, header |-> a.header, ret |-> 0,
                        uninit |-> un \cup w.uninit, overflow |-> FALSE,
                        writes |-> a.writes \o Write("index", "insertKey", "node",
                                                     fseekSet(a.pos, root)),
                        rootNode |-> a.parentNode, promoted |-> a.promoted])))))

\* insertKey(indexFile, key, bookPosition, header).  header is the caller's
\* in-memory header; the root is read from the file.  rootNode and promoted
\* are its locals rootNode and promotedKey as they are when it returns.
insertKey(f, key, bookPosition, header, g) ==
    With(getRootAddress(f), LAMBDA root :
       IF root = -1
       THEN With(createNode23(f, SizeofIndexFileHeader, header,
                              Node23(1, key, -1, bookPosition, -1, -1, -1, -1), g),
                 LAMBDA c :
            With([c.header EXCEPT !.rootAddress = c.ret], LAMBDA h2 :
            With(saveHeader(c.f, h2, g), LAMBDA w :
               [f |-> w.f, pos |-> w.pos, header |-> h2, ret |-> c.ret,
                uninit |-> c.uninit, overflow |-> FALSE,
                writes |-> c.writes \o Write("index", "insertKey", "header", 0),
                rootNode |-> Node23(1, key, -1, bookPosition, -1, -1, -1, -1),
                promoted |-> [key |-> g.int, set |-> FALSE]])))
       ELSE With(loadNode23(f, SizeofIndexFileHeader, root, g), LAMBDA rootNode :
            With(insertKeyAux(f, rootNode.pos, header, root, rootNode.node, key,
                              [key |-> g.int, set |-> FALSE], -1, bookPosition, -1, g,
                              {<<root, SizeofIndexFileHeader>>}), LAMBDA a :
            With(a.uninit \cup rootNode.uninit, LAMBDA un :
               IF a.overflow
               THEN [f |-> a.f, pos |-> a.pos, header |-> a.header, ret |-> 0,
                     uninit |-> un, overflow |-> TRUE, writes |-> a.writes,
                     rootNode |-> a.parentNode, promoted |-> a.promoted]
               ELSE IF a.ret # -1
               THEN With(createNode23(a.f, a.pos, a.header,
                             Node23(1, a.promoted.key, -1, -1, -1, root, a.ret, -1), g),
                         LAMBDA c :
                    With([c.header EXCEPT !.rootAddress = c.ret], LAMBDA h2 :
                    With(saveHeader(c.f, h2, g), LAMBDA w :
                       [f |-> w.f, pos |-> w.pos, header |-> h2, ret |-> 0,
                        uninit |-> un \cup c.uninit
                                   \cup (IF a.promoted.set THEN {} ELSE {"int"}),
                        overflow |-> FALSE,
                        writes |-> a.writes \o c.writes
                                   \o Write("index", "insertKey", "header", 0),
                        rootNode |-> a.parentNode, promoted |-> a.promoted])))
               ELSE With(saveNode(a.f, a.pos, root, a.parentNode, g), LAMBDA w :
                       [f |-> w.f, pos |-> w.pos, header |-> a.header, ret |-> 0,
                        uninit |-> un \cup w.uninit, overflow |-> FALSE,
                        writes |-> a.writes \o Write("index", "insertKey", "node",
                                                     fseekSet(a.pos, root)),
                        rootNode |-> a.parentNode, promoted |-> a.promoted])))))

----------------------------------------------------------------------------
(* Tree deletion.                                                          *)

\* removeKeyFromLeaf(node, key)
removeKeyFromLeaf(node, key) ==
    IF node.left_key = key
    THEN [node EXCEPT !.left_key = node.right_key, !.leftBook = node.rightBook,
                      !.right_key = -1, !.rightBook = -1, !.nKeys = node.nKeys - 1]
    ELSE IF node.right_key = key
    THEN [node EXCEPT !.right_key = -1, !.rightBook = -1, !.nKeys = node.nKeys - 1]
    ELSE node

\* findParentAux(indexFile, parentAddress, parentNode, nodeAddress, key)
findParentAux(parentAddress, parentNode, nodeAddress, key) ==
    IF isLeafNode(parentNode) THEN -1
    ELSE IF parentNode.left_child = nodeAddress
    THEN (IF key < parentNode.left_key THEN parentAddress ELSE -1)
    ELSE IF parentNode.middle_child = nodeAddress
    THEN (IF key >= parentNode.left_key /\ key < parentNode.right_key THEN parentAddress ELSE -1)
    ELSE IF parentNode.right_child = nodeAddress
    THEN (IF key >= parentNode.right_key THEN parentAddress ELSE -1)
    ELSE -1

\* findParent(indexFile, nodeAddress, header)
findParent(f, nodeAddress, g) ==
    With(getRootAddress(f), LAMBDA root :
       IF root = -1 \/ root = nodeAddress
       THEN [ret |-> -1, pos |-> SizeofIndexFileHeader, uninit |-> {}]
       ELSE With(loadNode23(f, SizeofIndexFileHeader, root, g), LAMBDA rootNode :
               [ret |-> findParentAux(root, rootNode.node, nodeAddress, -1),
                pos |-> rootNode.pos, uninit |-> rootNode.uninit]))

\* findSibling(indexFile, parentAddress, nodeAddress, header)
findSibling(f, pos, parentAddress, nodeAddress, g) ==
    With(loadNode23(f, pos, parentAddress, g), LAMBDA ld :
    With(ld.node, LAMBDA parentNode :
       [ret |-> IF parentNode.left_child = -1 \/ parentNode.middle_child = -1
                   \/ parentNode.right_child = -1
                THEN -1
                ELSE IF parentNode.left_child = nodeAddress THEN parentNode.middle_child
                ELSE IF parentNode.middle_child = nodeAddress
                THEN (IF parentNode.nKeys = 1 THEN parentNode.left_child
                      ELSE parentNode.right_child)
                ELSE IF parentNode.right_child = nodeAddress THEN parentNode.middle_child
                ELSE -1,
        pos |-> ld.pos, uninit |-> ld.uninit]))

\* redistributeKeys(indexFile, &parentNode, &siblingNode, node, key): the
\* rotation through the parent.  The deficient node lies left of the
\* sibling when the removed key is below the sibling's left key.
redistributeKeys(parentNode, siblingNode, node, key) ==
    LET nodeIsLeft == key < siblingNode.left_key
        sepIsLeft == IF parentNode.nKeys = 1 THEN TRUE
                     ELSE IF nodeIsLeft THEN siblingNode.left_key < parentNode.right_key
                     ELSE node.left_key < parentNode.right_key
        sep == IF sepIsLeft THEN parentNode.left_key ELSE parentNode.right_key
        sepBook == IF sepIsLeft THEN parentNode.leftBook ELSE parentNode.rightBook
        up == IF nodeIsLeft THEN siblingNode.left_key ELSE siblingNode.right_key
        upBook == IF nodeIsLeft THEN siblingNode.leftBook ELSE siblingNode.rightBook
    IN [parentNode |-> IF sepIsLeft
                       THEN [parentNode EXCEPT !.left_key = up, !.leftBook = upBook]
                       ELSE [parentNode EXCEPT !.right_key = up, !.rightBook = upBook],
        siblingNode |-> IF nodeIsLeft
                        THEN [siblingNode EXCEPT !.left_key = siblingNode.right_key,
                                 !.leftBook = siblingNode.rightBook, !.right_key = -1,
                                 !.rightBook = -1, !.nKeys = 1,
                                 !.left_child = siblingNode.middle_child,
                                 !.middle_child = siblingNode.right_child,
                                 !.right_child = -1]
                        ELSE [siblingNode EXCEPT !.right_key = -1, !.rightBook = -1,
                                 !.nKeys = 1, !.right_child = -1],
        node |-> IF nodeIsLeft
                 THEN [node EXCEPT !.left_key = sep, !.leftBook = sepBook, !.nKeys = 1,
                                   !.middle_child = siblingNode.left_child]
                 ELSE [node EXCEPT !.left_key = sep, !.leftBook = sepBook, !.nKeys = 1,
                                   !.middle_child = node.left_child,
                                   !.left_child = siblingNode.right_child]]

\* mergeNodes(indexFile, &parentNode, &siblingNode, node, key): the
\* separating key and the sibling's key are folded into the sibling; the
\* parent loses one key and the child slot of the emptied node.
mergeNodes(parentNode, siblingNode, node, key) ==
    LET nodeIsLeft == key < siblingNode.left_key
        sepIsLeft == IF parentNode.nKeys = 1 THEN TRUE
                     ELSE IF nodeIsLeft THEN siblingNode.left_key < parentNode.right_key
                     ELSE FALSE
        sep == IF sepIsLeft THEN parentNode.left_key ELSE parentNode.right_key
        sepBook == IF sepIsLeft THEN parentNode.leftBook ELSE parentNode.rightBook
        merged == IF nodeIsLeft
                  THEN [siblingNode EXCEPT !.left_key = sep, !.leftBook = sepBook,
                           !.right_key = siblingNode.left_key,
                           !.rightBook = siblingNode.leftBook, !.nKeys = 2,
                           !.left_child = node.left_child,
                           !.middle_child = siblingNode.left_child,
                           !.right_child = siblingNode.middle_child]
                  ELSE [siblingNode EXCEPT !.right_key = sep, !.rightBook = sepBook,
                           !.nKeys = 2, !.right_child = node.left_child]
        parent2 == IF sepIsLeft
                   THEN [parentNode EXCEPT !.left_key = parentNode.right_key,
                            !.leftBook = parentNode.rightBook, !.right_key = -1,
                            !.rightBook = -1, !.nKeys = parentNode.nKeys - 1,
                            !.left_child = IF nodeIsLeft THEN parentNode.middle_child
                                           ELSE parentNode.left_child,
                            !.middle_child = parentNode.right_child, !.right_child = -1]
                   ELSE [parentNode EXCEPT !.right_key = -1, !.rightBook = -1,
                            !.nKeys = parentNode.nKeys - 1,
                            !.middle_child = IF nodeIsLeft THEN parentNode.right_child
                                             ELSE parentNode.middle_child,
                            !.right_child = -1]
    IN [parentNode |-> parent2, siblingNode |-> merged,
        node |-> [node EXCEPT !.nKeys = 0]]

\* handleLeafUnderflow(indexFile, nodeAddress, node, header, key).  The
\* recursion is on the address findParent returned, which is the root, and
\* findParent of the root is -1: it is at most two frames deep.
RECURSIVE handleLeafUnderflow(_, _, _, _, _, _, _)
handleLeafUnderflow(f, pos, nodeAddress, node, header, key, g) ==
    LET save(f1, pos1, h1, parentAddress, siblingAddress, p, s, n, u, o, wr) ==
            With(saveNode(f1, pos1, parentAddress, p, g), LAMBDA w1 :
            With(saveNode(w1.f, w1.pos, siblingAddress, s, g), LAMBDA w2 :
            With(saveNode(w2.f, w2.pos, nodeAddress, n, g), LAMBDA w3 :
               [f |-> w3.f, pos |-> w3.pos, header |-> h1, node |-> n,
                uninit |-> u \cup w1.uninit \cup w2.uninit \cup w3.uninit, overflow |-> o,
                writes |-> wr \o Write("index", "handleLeafUnderflow", "node",
                                       fseekSet(pos1, parentAddress))
                              \o Write("index", "handleLeafUnderflow", "node",
                                       fseekSet(w1.pos, siblingAddress))
                              \o Write("index", "handleLeafUnderflow", "node",
                                       fseekSet(w2.pos, nodeAddress))])))
    IN IF node.nKeys > 0
       THEN [f |-> f, pos |-> pos, header |-> header, node |-> node,
             uninit |-> {}, overflow |-> FALSE, writes |-> <<>>]
       ELSE
       With(findParent(f, nodeAddress, g), LAMBDA parent :
       IF parent.ret = -1
       THEN With([header EXCEPT !.rootAddress = -1], LAMBDA h2 :
            With(saveHeader(f, h2, g), LAMBDA w :
               [f |-> w.f, pos |-> w.pos, header |-> h2, node |-> node,
                uninit |-> parent.uninit, overflow |-> FALSE,
                writes |-> Write("index", "handleLeafUnderflow", "header", 0)]))
       ELSE
       With(loadNode23(f, parent.pos, parent.ret, g), LAMBDA parentLd :
       With(findSibling(f, parentLd.pos, parent.ret, nodeAddress, g), LAMBDA sibling :
       IF sibling.ret = -1
       THEN [f |-> f, pos |-> sibling.pos, header |-> header, node |-> node,
             uninit |-> parent.uninit \cup parentLd.uninit \cup sibling.uninit,
             overflow |-> FALSE, writes |-> <<>>]
       ELSE
       With(loadNode23(f, sibling.pos, sibling.ret, g), LAMBDA siblingLd :
       With(parent.uninit \cup parentLd.uninit \cup sibling.uninit \cup siblingLd.uninit,
            LAMBDA un :
       IF siblingLd.node.nKeys = 2
       THEN With(redistributeKeys(parentLd.node, siblingLd.node, node, key), LAMBDA r :
               save(f, siblingLd.pos, header, parent.ret, sibling.ret,
                    r.parentNode, r.siblingNode, r.node, un, FALSE, <<>>))
       ELSE With(mergeNodes(parentLd.node, siblingLd.node, node, key), LAMBDA m :
               IF m.parentNode.nKeys # 0
               THEN save(f, siblingLd.pos, header, parent.ret, sibling.ret,
                         m.parentNode, m.siblingNode, m.node, un, FALSE, <<>>)
               ELSE With(handleLeafUnderflow(f, siblingLd.pos, parent.ret,
                                             m.parentNode, header, key, g), LAMBDA up :
                       save(up.f, up.pos, up.header, parent.ret, sibling.ret,
                            up.node, m.siblingNode, m.node,
                            un \cup up.uninit, up.overflow, up.writes))))))))

\* findMinInSubtree(indexFile, node): the loop that follows left_child.
\* seen holds the <<offset, position>> pairs already loaded: a repeated pair
\* means the loop never ends.
RECURSIVE findMinInSubtree(_, _, _, _, _)
findMinInSubtree(f, pos, node, g, seen) ==
    IF node.left_child = -1
    THEN [ret |-> node.left_key, pos |-> pos, uninit |-> {}, overflow |-> FALSE]
    ELSE IF <<node.left_child, pos>> \in seen
    THEN [ret |-> -1, pos |-> pos, uninit |-> {}, overflow |-> TRUE]
    ELSE With(loadNode23(f, pos, node.left_child, g), LAMBDA ld :
         With(findMinInSubtree(f, ld.pos, ld.node, g,
                               seen \cup {<<node.left_child, pos>>}), LAMBDA r :
            [r EXCEPT !.uninit = @ \cup ld.uninit]))

\* findInOrderSuccessor(indexFile, node, key)
findInOrderSuccessor(f, pos, node, key, g) ==
    LET none == [ret |-> -1, pos |-> pos, uninit |-> {}, overflow |-> FALSE]
    IN IF node.nKeys = 1
       THEN (IF node.left_key = key THEN [none EXCEPT !.ret = node.right_key] ELSE none)
       ELSE IF node.left_key = key
       THEN (IF node.right_child # -1
             THEN With(loadNode23(f, pos, node.right_child, g), LAMBDA rightChild :
                  With(findMinInSubtree(f, rightChild.pos, rightChild.node, g, {}),
                       LAMBDA m :
                     [m EXCEPT !.uninit = @ \cup rightChild.uninit]))
             ELSE none)
       ELSE IF node.right_key = key
       THEN With(findParent(f, node.right_child, g), LAMBDA p :
               [ret |-> p.ret, pos |-> p.pos, uninit |-> p.uninit, overflow |-> FALSE])
       ELSE none

\* replaceKey(node, key, newKey)
replaceKey(node, key, newKey) ==
    IF node.left_key = key THEN [node EXCEPT !.left_key = newKey]
    ELSE IF node.right_key = key THEN [node EXCEPT !.right_key = newKey]
    ELSE node

\* handleEmptyNode(indexFile, node, header).  In the first branch freeNode
\* is a local of which only left_child and nKeys are assigned.
handleEmptyNode(f, pos, node, header, g) ==
    IF header.headEmptyPosition # -1
    THEN With([g.node EXCEPT !.left_child = header.headEmptyPosition, !.nKeys = 0],
              LAMBDA freeNode :
         With(saveNode(f, pos, header.headEmptyPosition, freeNode, g), LAMBDA w1 :
         With([header EXCEPT !.headEmptyPosition = freeNode.left_child], LAMBDA h2 :
         With(saveHeader(w1.f, h2, g), LAMBDA w2 :
            [f |-> w2.f, pos |-> w2.pos, header |-> h2, uninit |-> {"node"},
             writes |-> Write("index", "handleEmptyNode", "node",
                              fseekSet(pos, header.headEmptyPosition))
                        \o Write("index", "handleEmptyNode", "header", 0)]))))
    ELSE With(saveNode(f, pos, header.firstEmptyPosition, [node EXCEPT !.nKeys = 0], g),
              LAMBDA w1 :
         With([header EXCEPT !.firstEmptyPosition = header.firstEmptyPosition + 1],
              LAMBDA h2 :
         With(saveHeader(w1.f, h2, g), LAMBDA w2 :
            [f |-> w2.f, pos |-> w2.pos, header |-> h2, uninit |-> w1.uninit,
             writes |-> Write("index", "handleEmptyNode", "node",
                              fseekSet(pos, header.firstEmptyPosition))
                        \o Write("index", "handleEmptyNode", "header", 0)])))

\* removeKey(indexFile, key, header).  seen holds the <<file, key>> pairs of
\* the frames above: a call that repeats one never returns (overflow).
RECURSIVE removeKey(_, _, _, _, _)
removeKey(f, key, header, g, seen) ==
    LET finish(f1, pos1, h1, node, un, ov, wr) ==
            IF ~ov /\ node.nKeys = 0
            THEN With(handleEmptyNode(f1, pos1, node, h1, g), LAMBDA e :
                    [f |-> e.f, pos |-> e.pos, header |-> e.header, ret |-> 0,
                     uninit |-> un \cup e.uninit, overflow |-> FALSE,
                     writes |-> wr \o e.writes])
            ELSE [f |-> f1, pos |-> pos1, header |-> h1, ret |-> 0,
                  uninit |-> un, overflow |-> ov, writes |-> wr]
    IN With(twoThreeTreeSearch(f, key, g), LAMBDA found :
       IF found.overflow \/ <<f, key>> \in seen
       THEN [f |-> f, pos |-> found.pos, header |-> header, ret |-> -1,
             uninit |-> found.uninit, overflow |-> TRUE, writes |-> <<>>]
       ELSE IF found.ret = -1 \/ header.rootAddress = -1
       THEN [f |-> f, pos |-> found.pos, header |-> header, ret |-> -1,
             uninit |-> found.uninit, overflow |-> FALSE, writes |-> <<>>]
       ELSE
       With(loadNode23(f, found.pos, header.rootAddress, g), LAMBDA rootNode :
       With(found.uninit \cup rootNode.uninit, LAMBDA un0 :
       IF isLeafNode(rootNode.node)
       THEN IF rootNode.node.nKeys = 2
            THEN With(removeKeyFromLeaf(rootNode.node, key), LAMBDA n2 :
                 With(saveNode(f, rootNode.pos, header.rootAddress, n2, g), LAMBDA w :
                    finish(w.f, w.pos, header, n2, un0 \cup w.uninit, FALSE,
                           Write("index", "removeKey", "node",
                                 fseekSet(rootNode.pos, header.rootAddress)))))
            ELSE With(handleLeafUnderflow(f, rootNode.pos, header.rootAddress,
                                          rootNode.node, header, key, g), LAMBDA u :
                    finish(u.f, u.pos, u.header, u.node, un0 \cup u.uninit, u.overflow,
                           u.writes))
       ELSE
       With(findInOrderSuccessor(f, rootNode.pos, rootNode.node, key, g), LAMBDA succ :
       IF succ.overflow
       THEN [f |-> f, pos |-> succ.pos, header |-> header, ret |-> -1,
             uninit |-> un0 \cup succ.uninit, overflow |-> TRUE, writes |-> <<>>]
       ELSE
       With(replaceKey(rootNode.node, key, succ.ret), LAMBDA n2 :
       With(saveNode(f, succ.pos, header.rootAddress, n2, g), LAMBDA w :
       With(removeKey(w.f, succ.ret, header, g, seen \cup {<<f, key>>}), LAMBDA r :
          finish(r.f, r.pos, r.header, n2,
                 un0 \cup succ.uninit \cup w.uninit \cup r.uninit, r.overflow,
                 Write("index", "removeKey", "node", fseekSet(succ.pos, header.rootAddress))
                 \o r.writes))))))))

----------------------------------------------------------------------------
(* The data file and addBookAux.                                           *)

Book(code, title) == [code |-> code, title |-> title]

Books == [code : Keys, title : Titles]

\* the bytes of a hole that a write beyond the end of the file leaves
ZeroBook == Book(0, 0)

\* fwrite of one Book at sizeof(BookDataFileHeader) + offset * sizeof(Book)
WriteSlot(slots, offset, book) ==
    LET padded == IF Len(slots) < offset
                  THEN slots \o [j \in 1..(offset - Len(slots)) |-> ZeroBook]
                  ELSE slots
    IN SubSeq(padded, 1, offset) \o <<book>> \o SubSeq(padded, offset + 2, Len(padded))

\* addBookAux with a reuse branch that leaves headEmptyPosition as it was
addBookAux_HeadNotAdvanced(idx, data, book, g) ==
    LET dataHeader == data.header
        reuse == dataHeader.headEmptyPosition # -1
        end == SizeofBookDataFileHeader + SizeofBook * Len(data.slots)
        offset == IF reuse THEN dataHeader.headEmptyPosition ELSE end \div SizeofBook
        canRead == offset >= 0 /\ offset < Len(data.slots)   \* fseek and fread of the free node
        header2 == dataHeader
    IN With(twoThreeTreeSearch(idx, book.code, g), LAMBDA found :     \* getBookOffset
       IF found.overflow
       THEN [idx |-> idx, data |-> data, ret |-> "overflow", uninit |-> found.uninit,
             overflow |-> TRUE, offset |-> -1, inserted |-> FALSE, writes |-> <<>>]
       ELSE IF found.ret # -1
       THEN [idx |-> idx, data |-> data, ret |-> "exists", uninit |-> found.uninit,
             overflow |-> FALSE, offset |-> -1, inserted |-> FALSE, writes |-> <<>>]
       ELSE IF reuse /\ ~canRead
       THEN [idx |-> idx, data |-> data, ret |-> "error", uninit |-> found.uninit,
             overflow |-> FALSE, offset |-> -1, inserted |-> FALSE, writes |-> <<>>]
       ELSE
       With(insertKey(idx, book.code, offset, readFileHeader(idx), g), LAMBDA ik :
       With(IF offset >= ik.header.rootAddress
            THEN [ik.header EXCEPT !.rootAddress = offset + 1]
            ELSE ik.header, LAMBDA indexHeader :
       With(saveHeader(ik.f, indexHeader, g), LAMBDA w :
          [idx |-> w.f,
           data |-> [header |-> header2, slots |-> WriteSlot(data.slots, offset, book)],
           ret |-> IF ik.overflow THEN "overflow" ELSE "added",
           uninit |-> found.uninit \cup ik.uninit, overflow |-> ik.overflow,
           offset |-> offset, inserted |-> TRUE,
           writes |-> (IF reuse THEN Write("data", "addBookAux", "header", 0) ELSE <<>>)
                      \o Write("data", "addBookAux", "record",
                               SizeofBookDataFileHeader + offset * SizeofBook)
                      \o ik.writes
                      \o Write("index", "addBookAux", "header", 0)]))))

\* addBookAux(dataFile, indexFile, book)
addBookAux(idx, data, book, g) ==
    LET dataHeader == data.header
        reuse == dataHeader.headEmptyPosition # -1
        end == SizeofBookDataFileHeader + SizeofBook * Len(data.slots)
        offset == IF reuse THEN dataHeader.headEmptyPosition ELSE end \div SizeofBook
        canRead == offset >= 0 /\ offset < Len(data.slots)   \* fseek and fread of the free node
        header2 == IF reuse
                   THEN [dataHeader EXCEPT !.headEmptyPosition = data.slots[offset + 1].title]
                   ELSE dataHeader
    IN With(twoThreeTreeSearch(idx, book.code, g), LAMBDA found :     \* getBookOffset
       IF found.overflow
       THEN [idx |-> idx, data |-> data, ret |-> "overflow", uninit |-> found.uninit,
             overflow |-> TRUE, offset |-> -1, inserted |-> FALSE, writes |-> <<>>]
       ELSE IF found.ret # -1
       THEN [idx |-> idx, data |-> data, ret |-> "exists", uninit |-> found.uninit,
             overflow |-> FALSE, offset |-> -1, inserted |-> FALSE, writes |-> <<>>]
       ELSE IF reuse /\ ~canRead
       THEN [idx |-> idx, data |-> data, ret |-> "error", uninit |-> found.uninit,
             overflow |-> FALSE, offset |-> -1, inserted |-> FALSE, writes |-> <<>>]
       ELSE
       With(insertKey(idx, book.code, offset, readFileHeader(idx), g), LAMBDA ik :
       With(IF offset >= ik.header.rootAddress
            THEN [ik.header EXCEPT !.rootAddress = offset + 1]
            ELSE ik.header, LAMBDA indexHeader :
       With(saveHeader(ik.f, indexHeader, g), LAMBDA w :
          [idx |-> w.f,
           data |-> [header |-> header2, slots |-> WriteSlot(data.slots, offset, book)],
           ret |-> IF ik.overflow THEN "overflow" ELSE "added",
           uninit |-> found.uninit \cup ik.uninit, overflow |-> ik.overflow,
           offset |-> offset, inserted |-> TRUE,
           writes |-> (IF reuse THEN Write("data", "addBookAux", "header", 0) ELSE <<>>)
                      \o Write("data", "addBookAux", "record",
                               SizeofBookDataFileHeader + offset * SizeofBook)
                      \o ik.writes
                      \o Write("index", "addBookAux", "header", 0)]))))

\* showBookInfo(dataFile, offset) on the word image f of the file it is
\* given: the Book at sizeof(BookDataFileHeader) + offset * sizeof(Book),
\* or a read error when the file ends before it
showBookInfo(f, offset) ==
    LET position == SizeofBookDataFileHeader + offset * SizeofBook
        w == position \div SizeofWord
    IN IF position >= 0 /\ position + SizeofBook <= FileSize(f)
       THEN [ret |-> "shown", book |-> Book(f[w + 1], f[w + 2])]
       ELSE [ret |-> "error", book |-> ZeroBook]

\* printBookData(arquivo, codigo): the one FILE it is given is searched as
\* the index and then read as the data file, at the offset the search gave
printBookData(arquivo, codigo, g) ==
    With(twoThreeTreeSearch(arquivo, codigo, g), LAMBDA found :      \* getBookOffset
       IF found.overflow
       THEN [ret |-> "overflow", offset |-> -1, book |-> ZeroBook, overflow |-> TRUE,
             uninit |-> found.uninit]
       ELSE IF found.ret = -1
       THEN [ret |-> "notfound", offset |-> -1, book |-> ZeroBook, overflow |-> FALSE,
             uninit |-> found.uninit]
       ELSE With(showBookInfo(arquivo, found.ret), LAMBDA shown :
               [ret |-> shown.ret, offset |-> found.ret, book |-> shown.book,
                overflow |-> FALSE, uninit |-> found.uninit]))

\* twoThreeTreeCountNodesRec(node, indexFile): 1 for the node plus the counts
\* of the nodes loaded from its child fields, whatever these hold.  seen
\* holds the <<offset, position>> pairs of the loads of the frames above: the
\* file does not change, so a load that repeats one never returns.
RECURSIVE twoThreeTreeCountNodesRec(_, _, _, _, _)
twoThreeTreeCountNodesRec(f, pos, node, g, seen) ==
    LET start == [ret |-> 1, pos |-> pos, overflow |-> FALSE, uninit |-> {}]
        child(acc, offset) ==
            IF acc.overflow THEN acc
            ELSE IF <<offset, acc.pos>> \in seen THEN [acc EXCEPT !.overflow = TRUE]
            ELSE With(loadNode23(f, acc.pos, offset, g), LAMBDA ld :
                 With(twoThreeTreeCountNodesRec(f, ld.pos, ld.node, g,
                                                seen \cup {<<offset, acc.pos>>}), LAMBDA r :
                    [ret |-> acc.ret + r.ret, pos |-> r.pos, overflow |-> r.overflow,
                     uninit |-> acc.uninit \cup ld.uninit \cup r.uninit]))
    IN IF node.nKeys = 1
       THEN With(child(start, node.left_child), LAMBDA c1 : child(c1, node.middle_child))
       ELSE IF node.nKeys = 2
       THEN With(child(start, node.left_child), LAMBDA c1 :
            With(child(c1, node.middle_child), LAMBDA c2 : child(c2, node.right_child)))
       ELSE start

\* twoThreeTreeCountNodes(indexFile)
twoThreeTreeCountNodes(f, g) ==
    With(getRootAddress(f), LAMBDA rootAddress :
       IF rootAddress = -1
       THEN [ret |-> 0, pos |-> SizeofIndexFileHeader, overflow |-> FALSE, uninit |-> {}]
       ELSE With(loadNode23(f, SizeofIndexFileHeader, rootAddress, g), LAMBDA root :
            With(twoThreeTreeCountNodesRec(f, root.pos, root.node, g,
                                           {<<rootAddress, SizeofIndexFileHeader>>}),
                 LAMBDA r : [r EXCEPT !.uninit = @ \cup root.uninit])))

\* calcularTotalLivrosRegistrados(indexFile), the index file being open
calcularTotalLivrosRegistrados(indexFile_, g) == twoThreeTreeCountNodes(indexFile_, g)

NumNodes(f) == (Len(f) * SizeofWord - SizeofIndexFileHeader) \div SizeofNode23

\* The uninitialised values an operation can meet.  uninit names the kinds
\* an evaluation consulted: "node" for a Node23 that fread did not fill,
\* "int" for promotedKey and for the bytes of a write that is not word
\* aligned.  Nodes are drawn when the operation reads one; ints are drawn
\* when, with that node, it reads one (no int read is followed by a read of
\* the file within the same operation).
OracleNodes(uninit) == IF "node" \in uninit THEN UninitNodes ELSE {NoUninit.node}
OracleInts(uninit) == IF "int" \in uninit THEN UninitInts ELSE {NoUninit.int}
Oracle(n, i) == [node |-> n, int |-> i]

----------------------------------------------------------------------------
(* The tree an index file holds, as the node layout defines it: the nodes  *)
(* found by following the child fields from rootAddress.  These read the   *)
(* words at the offset itself; they are not the program's loadNode23.      *)

\* a byte offset at which the file holds a whole node
IsNodeOffset(f, offset) ==
    /\ offset >= SizeofIndexFileHeader
    /\ (offset - SizeofIndexFileHeader) % SizeofNode23 = 0
    /\ offset + SizeofNode23 <= FileSize(f)

NodeAt(f, offset) ==
    LET w == offset \div SizeofWord
    IN Node23(f[w + 1], f[w + 2], f[w + 3], f[w + 4], f[w + 5], f[w + 6], f[w + 7], f[w + 8])

\* a path from the root visits each node once, so MaxNodes + 1 levels reach
\* every node unless the child fields form a cycle
MaxDepth == MaxNodes + 1

\* the entries <<key, book>> of the subtree at offset, in order
RECURSIVE InOrder(_, _, _)
InOrder(f, offset, fuel) ==
    IF fuel = 0 \/ ~IsNodeOffset(f, offset) THEN <<>>
    ELSE With(NodeAt(f, offset), LAMBDA node :
            InOrder(f, node.left_child, fuel - 1)
            \o (IF node.nKeys >= 1 THEN <<(<<node.left_key, node.leftBook>>)>> ELSE <<>>)
            \o InOrder(f, node.middle_child, fuel - 1)
            \o (IF node.nKeys = 2
                THEN <<(<<node.right_key, node.rightBook>>)>>
                     \o InOrder(f, node.right_child, fuel - 1)
                ELSE <<>>))

TreeEntries(f) == InOrder(f, getRootAddress(f), MaxDepth)

TreeKeys(f) == With(TreeEntries(f), LAMBDA es : { es[i][1] : i \in 1..Len(es) })

\* the depths at which the subtree at offset has a leaf
RECURSIVE LeafDepths(_, _, _, _)
LeafDepths(f, offset, depth, fuel) ==
    IF fuel = 0 \/ ~IsNodeOffset(f, offset) THEN {}
    ELSE With(NodeAt(f, offset), LAMBDA node :
            IF isLeafNode(node) THEN {depth}
            ELSE LeafDepths(f, node.left_child, depth + 1, fuel - 1)
                 \cup LeafDepths(f, node.middle_child, depth + 1, fuel - 1)
                 \cup (IF node.nKeys = 2
                       THEN LeafDepths(f, node.right_child, depth + 1, fuel - 1)
                       ELSE {}))

\* the offsets of the nodes on the paths from offset down
RECURSIVE Descendants(_, _, _)
Descendants(f, offset, fuel) ==
    IF fuel = 0 \/ ~IsNodeOffset(f, offset) THEN {}
    ELSE With(NodeAt(f, offset), LAMBDA node :
            {offset} \cup Descendants(f, node.left_child, fuel - 1)
                     \cup Descendants(f, node.middle_child, fuel - 1)
                     \cup Descendants(f, node.right_child, fuel - 1))

\* node holds key: left_key, or right_key when nKeys = 2
HoldsKey(node, key) == node.left_key = key \/ (node.nKeys = 2 /\ node.right_key = key)

\* loads is a path of the tree: it starts at the root and every further
\* offset is a child field of the node before it, and each is a node
IsRootPath(f, loads) ==
    /\ Len(loads) >= 1
    /\ loads[1] = getRootAddress(f)
    /\ \A i \in 1..Len(loads) : IsNodeOffset(f, loads[i])
    /\ \A i \in 1..(Len(loads) - 1) :
          LET node == NodeAt(f, loads[i])
          IN loads[i + 1] \in {node.left_child, node.middle_child, node.right_child}

\* the 2-3 tree shape of the subtree at offset: one or two keys per node, a
\* leaf has no child, an internal node has nKeys + 1 children
RECURSIVE IsTwoThreeShape(_, _, _)
IsTwoThreeShape(f, offset, fuel) ==
    /\ fuel > 0
    /\ IsNodeOffset(f, offset)
    /\ With(NodeAt(f, offset), LAMBDA node :
          /\ node.nKeys \in {1, 2}
          /\ IF isLeafNode(node)
             THEN node.middle_child = -1 /\ node.right_child = -1
             ELSE /\ IsTwoThreeShape(f, node.left_child, fuel - 1)
                  /\ IsTwoThreeShape(f, node.middle_child, fuel - 1)
                  /\ IF node.nKeys = 2
                     THEN IsTwoThreeShape(f, node.right_child, fuel - 1)
                     ELSE node.right_child = -1)

IsStrictlyIncreasing(entries) ==
    \A i \in 1..(Len(entries) - 1) : entries[i][1] < entries[i + 1][1]

\* a well-formed tree: empty, or of 2-3 shape with its keys in order and its
\* leaves at one depth
WellFormed(f) ==
    \/ getRootAddress(f) = -1
    \/ /\ IsTwoThreeShape(f, getRootAddress(f), MaxDepth)
       /\ IsStrictlyIncreasing(TreeEntries(f))
       /\ Cardinality(LeafDepths(f, getRootAddress(f), 0, MaxDepth)) = 1

----------------------------------------------------------------------------
\* main: both files are opened "w+b" and given their headers
Init ==
    /\ indexFile = createIndexFileHeader
    /\ dataFile = [header |-> createBookDataFileHeader, slots |-> <<>>]
    /\ crashed = FALSE
    /\ last = [op |-> "open"]
    /\ inserted = {}
    /\ removed = FALSE
    /\ direct = FALSE

\* a caller runs twoThreeTreeSearch(indexFile, key)
Search ==
    /\ ~crashed
    /\ \E key \in Keys :
       \E r0 \in {twoThreeTreeSearch(indexFile, key, NoUninit)} :
       \E n \in OracleNodes(r0.uninit) :
       \E r \in {IF n = NoUninit.node THEN r0
                 ELSE twoThreeTreeSearch(indexFile, key, Oracle(n, NoUninit.int))} :
         /\ crashed' = r.overflow
         /\ last' = [op |-> "search", key |-> key, ret |-> r.ret, loads |-> r.loads,
                     overflow |-> r.overflow]
    /\ UNCHANGED <<indexFile, dataFile, inserted, removed, direct>>

\* a caller runs addBookAux(dataFile, indexFile, &book); entries and data are
\* the tree entries and the data file before the call
AddBook ==
    /\ ~crashed
    /\ \E book \in Books :
       \E r0 \in {addBookAux(indexFile, dataFile, book, NoUninit)} :
       \E n \in OracleNodes(r0.uninit) :
       \E r1 \in {IF n = NoUninit.node THEN r0
                  ELSE addBookAux(indexFile, dataFile, book, Oracle(n, NoUninit.int))} :
       \E i \in OracleInts(r1.uninit) :
       \E r \in {IF i = NoUninit.int THEN r1
                 ELSE addBookAux(indexFile, dataFile, book, Oracle(n, i))} :
         /\ NumNodes(r.idx) <= MaxNodes
         /\ Len(r.data.slots) <= MaxSlots
         /\ indexFile' = r.idx
         /\ dataFile' = r.data
         /\ crashed' = r.overflow
         /\ inserted' = IF r.inserted THEN inserted \cup {book.code} ELSE inserted
         /\ last' = [op |-> "add", book |-> book, ret |-> r.ret, offset |-> r.offset,
                     stored |-> book.code \in TreeKeys(indexFile),
                     changed |-> (r.idx # indexFile \/ r.data # dataFile),
                     entries |-> TreeEntries(indexFile), data |-> dataFile,
                     before |-> indexFile, writes |-> r.writes]
    /\ UNCHANGED <<removed, direct>>

\* a caller reads the index header and runs insertKey(indexFile, key,
\* bookPosition, &header) for a key it has not inserted before
InsertKey ==
    /\ ~crashed
    /\ \E key \in Keys \ inserted :
       \E bookPosition \in {Cardinality(inserted)} :
       \E r0 \in {insertKey(indexFile, key, bookPosition, readFileHeader(indexFile), NoUninit)} :
       \E n \in OracleNodes(r0.uninit) :
       \E r1 \in {IF n = NoUninit.node THEN r0
                  ELSE insertKey(indexFile, key, bookPosition, readFileHeader(indexFile),
                                 Oracle(n, NoUninit.int))} :
       \E i \in OracleInts(r1.uninit) :
       \E r \in {IF i = NoUninit.int THEN r1
                 ELSE insertKey(indexFile, key, bookPosition, readFileHeader(indexFile),
                                Oracle(n, i))} :
         /\ NumNodes(r.f) <= MaxNodes
         /\ indexFile' = r.f
         /\ crashed' = r.overflow
         /\ inserted' = inserted \cup {key}
         /\ last' = [op |-> "insert", key |-> key, ret |-> r.ret, overflow |-> r.overflow,
                     bookPosition |-> bookPosition, before |-> indexFile,
                     rootNode |-> r.rootNode,
                     promotedKey |-> IF r.promoted.set THEN r.promoted.key ELSE NoKey,
                     writes |-> r.writes]
    /\ direct' = TRUE
    /\ UNCHANGED <<dataFile, removed>>

\* a caller reads the index header and runs insertKey(indexFile, key,
\* bookPosition, &header) for a key the tree holds: insertKey itself makes
\* no search
InsertStoredKey ==
    /\ ~crashed
    /\ \E key \in Keys \cap TreeKeys(indexFile) :
       \E bookPosition \in {Cardinality(inserted)} :
       \E r0 \in {insertKey(indexFile, key, bookPosition, readFileHeader(indexFile), NoUninit)} :
       \E n \in OracleNodes(r0.uninit) :
       \E r1 \in {IF n = NoUninit.node THEN r0
                  ELSE insertKey(indexFile, key, bookPosition, readFileHeader(indexFile),
                                 Oracle(n, NoUninit.int))} :
       \E i \in OracleInts(r1.uninit) :
       \E r \in {IF i = NoUninit.int THEN r1
                 ELSE insertKey(indexFile, key, bookPosition, readFileHeader(indexFile),
                                Oracle(n, i))} :
         /\ NumNodes(r.f) <= MaxNodes
         /\ indexFile' = r.f
         /\ crashed' = r.overflow
         /\ inserted' = inserted \cup {key}
         /\ last' = [op |-> "insert", key |-> key, ret |-> r.ret, overflow |-> r.overflow,
                     bookPosition |-> bookPosition, before |-> indexFile,
                     rootNode |-> r.rootNode,
                     promotedKey |-> IF r.promoted.set THEN r.promoted.key ELSE NoKey,
                     writes |-> r.writes]
    /\ direct' = TRUE
    /\ UNCHANGED <<dataFile, removed>>

\* a caller reads the index header and runs removeKey(indexFile, key, &header);
\* before and data are the two files before the call, after the add that
\* preceded it
RemoveKey ==
    /\ ~crashed
    /\ \E key \in Keys :
       \E r0 \in {removeKey(indexFile, key, readFileHeader(indexFile), NoUninit, {})} :
       \E n \in OracleNodes(r0.uninit) :
       \E r1 \in {IF n = NoUninit.node THEN r0
                  ELSE removeKey(indexFile, key, readFileHeader(indexFile),
                                 Oracle(n, NoUninit.int), {})} :
       \E i \in OracleInts(r1.uninit) :
       \E r \in {IF i = NoUninit.int THEN r1
                 ELSE removeKey(indexFile, key, readFileHeader(indexFile), Oracle(n, i), {})} :
         /\ NumNodes(r.f) <= MaxNodes
         /\ indexFile' = r.f
         /\ crashed' = r.overflow
         /\ removed' = (removed \/ (~r.overflow /\ r.ret = 0))
         /\ last' = [op |-> "remove", key |-> key, ret |-> r.ret, overflow |-> r.overflow,
                     stored |-> key \in TreeKeys(indexFile),
                     wellFormed |-> WellFormed(indexFile),
                     changed |-> r.f # indexFile,
                     before |-> indexFile, data |-> dataFile,
                     after |-> IF last.op = "add" THEN last ELSE [op |-> last.op],
                     writes |-> r.writes]
    /\ UNCHANGED <<dataFile, inserted, direct>>

\* a caller runs printBookData(arquivo, codigo) on the index file
PrintBookData ==
    /\ ~crashed
    /\ \E codigo \in Keys :
       \E r0 \in {printBookData(indexFile, codigo, NoUninit)} :
       \E n \in OracleNodes(r0.uninit) :
       \E r \in {IF n = NoUninit.node THEN r0
                 ELSE printBookData(indexFile, codigo, Oracle(n, NoUninit.int))} :
         /\ crashed' = r.overflow
         /\ last' = [op |-> "lookup", key |-> codigo, ret |-> r.ret, offset |-> r.offset,
                     book |-> r.book, overflow |-> r.overflow,
                     after |-> IF last.op = "add" THEN last ELSE [op |-> last.op]]
    /\ UNCHANGED <<indexFile, dataFile, inserted, removed, direct>>

\* the menu asks for the total of books registered:
\* calcularTotalLivrosRegistrados(indexFile)
CalcularTotalLivrosRegistrados ==
    /\ ~crashed
    /\ \E r0 \in {calcularTotalLivrosRegistrados(indexFile, NoUninit)} :
       \E n \in OracleNodes(r0.uninit) :
       \E r \in {IF n = NoUninit.node THEN r0
                 ELSE calcularTotalLivrosRegistrados(indexFile, Oracle(n, NoUninit.int))} :
         /\ crashed' = r.overflow
         /\ last' = [op |-> "total", ret |-> r.ret, overflow |-> r.overflow]
    /\ UNCHANGED <<indexFile, dataFile, inserted, removed, direct>>

\* the program ends (closeFile on both files) and main runs again: both
\* files are opened "w+b", which truncates them, and given their headers.
\* before and data are the two files as they were closed.
Reopen ==
    /\ indexFile' = createIndexFileHeader
    /\ dataFile' = [header |-> createBookDataFileHeader, slots |-> <<>>]
    /\ crashed' = FALSE
    /\ last' = [op |-> "reopen", before |-> indexFile, data |-> dataFile]
    /\ inserted' = {}
    /\ removed' = FALSE
    /\ direct' = FALSE

\* the operations of one run of the program
Session ==
    \/ Search \/ AddBook \/ InsertKey \/ RemoveKey \/ PrintBookData
    \/ CalcularTotalLivrosRegistrados

Next == Session \/ Reopen

Spec == Init /\ [][Next]_vars

----------------------------------------------------------------------------
(* The operations on index files that hold well-formed trees: the files    *)
(* the format describes, handed to the same operations.                    *)

LeafWords(key, book) == NodeWords(Node23(1, key, -1, book, -1, -1, -1, -1))

\* a leaf root with two keys, for each pair of keys; a root with one key
\* over two leaves with one key each; a root with one key over a leaf with
\* one key and a leaf with two; a root with two keys over three leaves
WellFormedStores ==
    { [idx |-> HeaderWords(IndexFileHeader(12, 0, -1))
                 \o NodeWords(Node23(2, 10, 50, 0, 1, -1, -1, -1)),
       slots |-> <<Book(10, 1), Book(50, 1)>>],
      [idx |-> HeaderWords(IndexFileHeader(12, 0, -1))
                 \o NodeWords(Node23(2, 10, 100, 0, 1, -1, -1, -1)),
       slots |-> <<Book(10, 1), Book(100, 1)>>],
      [idx |-> HeaderWords(IndexFileHeader(12, 0, -1))
                 \o NodeWords(Node23(2, 50, 100, 0, 1, -1, -1, -1)),
       slots |-> <<Book(50, 1), Book(100, 1)>>],
      [idx |-> HeaderWords(IndexFileHeader(76, 0, -1))
                 \o LeafWords(10, 0) \o LeafWords(100, 2)
                 \o NodeWords(Node23(1, 50, -1, 1, -1, 12, 44, -1)),
       slots |-> <<Book(10, 1), Book(50, 1), Book(100, 1)>>],
      [idx |-> HeaderWords(IndexFileHeader(76, 0, -1))
                 \o LeafWords(10, 0) \o NodeWords(Node23(2, 60, 100, 2, 3, -1, -1, -1))
                 \o NodeWords(Node23(1, 40, -1, 1, -1, 12, 44, -1)),
       slots |-> <<Book(10, 1), Book(40, 1), Book(60, 1), Book(100, 1)>>],
      [idx |-> HeaderWords(IndexFileHeader(108, 0, -1))
                 \o LeafWords(10, 0) \o LeafWords(50, 2) \o LeafWords(100, 4)
                 \o NodeWords(Node23(2, 30, 70, 1, 3, 12, 44, 76)),
       slots |-> <<Book(10, 1), Book(30, 1), Book(50, 1), Book(70, 1), Book(100, 1)>>] }

InitWF ==
    /\ \E store \in WellFormedStores :
          /\ indexFile = store.idx
          /\ dataFile = [header |-> createBookDataFileHeader, slots |-> store.slots]
          /\ inserted = { store.slots[i].code : i \in 1..Len(store.slots) }
    /\ crashed = FALSE
    /\ last = [op |-> "open"]
    /\ removed = FALSE
    /\ direct = FALSE

\* handleLeafUnderflow's call findSibling(indexFile, parentAddress,
\* nodeAddress, header) for a node of the tree and its parent
FindSibling ==
    /\ ~crashed
    /\ \E parentAddress \in { o \in Descendants(indexFile, getRootAddress(indexFile), MaxDepth) :
                                 ~isLeafNode(NodeAt(indexFile, o)) } :
       \E nodeAddress \in { NodeAt(indexFile, parentAddress).left_child,
                            NodeAt(indexFile, parentAddress).middle_child,
                            NodeAt(indexFile, parentAddress).right_child } \ {-1} :
       \E r0 \in {findSibling(indexFile, SizeofIndexFileHeader, parentAddress, nodeAddress,
                               NoUninit)} :
       \E n \in OracleNodes(r0.uninit) :
       \E r \in {IF n = NoUninit.node THEN r0
                 ELSE findSibling(indexFile, SizeofIndexFileHeader, parentAddress, nodeAddress,
                                  Oracle(n, NoUninit.int))} :
         last' = [op |-> "sibling", parentAddress |-> parentAddress,
                  nodeAddress |-> nodeAddress, ret |-> r.ret]
    /\ UNCHANGED <<indexFile, dataFile, crashed, inserted, removed, direct>>

\* handleLeafUnderflow's call findParent(indexFile, nodeAddress, header) for
\* a node of the tree
FindParent ==
    /\ ~crashed
    /\ \E nodeAddress \in Descendants(indexFile, getRootAddress(indexFile), MaxDepth) :
       \E r0 \in {findParent(indexFile, nodeAddress, NoUninit)} :
       \E n \in OracleNodes(r0.uninit) :
       \E r \in {IF n = NoUninit.node THEN r0
                 ELSE findParent(indexFile, nodeAddress, Oracle(n, NoUninit.int))} :
         last' = [op |-> "parent", nodeAddress |-> nodeAddress, ret |-> r.ret]
    /\ UNCHANGED <<indexFile, dataFile, crashed, inserted, removed, direct>>

\* the operations of a run, insertKey called for a stored key, and the
\* searches for a sibling and for a parent
NextWF == Session \/ InsertStoredKey \/ FindSibling \/ FindParent

SpecWF == InitWF /\ [][NextWF]_vars

----------------------------------------------------------------------------
(* The operations on files that carry free-lists: the index file chains    *)
(* released nodes by left_child from headEmptyPosition, the data file      *)
(* chains released slots by the nextOffset word of BookDataFreeNode, which *)
(* lies over the first word of the title.                                  *)

FreeNodeWords(next) == NodeWords(Node23(0, -1, -1, -1, -1, next, -1, -1))

FreeSlot(next) == Book(-1, next)

\* an empty tree with two released nodes and two released slots; a leaf root
\* with one key, one released node and one released slot
FreeListStores ==
    { [idx |-> HeaderWords(IndexFileHeader(-1, 0, 44))
                 \o FreeNodeWords(-1) \o FreeNodeWords(12),
       data |-> [header |-> [firstEmptyPosition |-> 0, headEmptyPosition |-> 1],
                 slots |-> <<FreeSlot(-1), FreeSlot(0)>>]],
      [idx |-> HeaderWords(IndexFileHeader(12, 0, 44))
                 \o LeafWords(10, 0) \o FreeNodeWords(-1),
       data |-> [header |-> [firstEmptyPosition |-> 0, headEmptyPosition |-> 1],
                 slots |-> <<Book(10, 1), FreeSlot(-1)>>]] }

InitFL ==
    /\ \E store \in FreeListStores :
          /\ indexFile = store.idx
          /\ dataFile = store.data
          /\ inserted = { store.data.slots[i].code : i \in 1..Len(store.data.slots) } \ {-1}
    /\ crashed = FALSE
    /\ last = [op |-> "open"]
    /\ removed = FALSE
    /\ direct = FALSE

\* the operation that takes from the two lists, and the read-only ones
NextFL == Search \/ AddBook \/ PrintBookData \/ CalcularTotalLivrosRegistrados

SpecFL == InitFL /\ [][NextFL]_vars

\* a leaf root with one key in an index file with two released nodes, the
\* list being 76, 44; the data file has no released slot
TwoFreeNodesStore ==
    [idx |-> HeaderWords(IndexFileHeader(12, 0, 76))
               \o LeafWords(10, 0) \o FreeNodeWords(-1) \o FreeNodeWords(44),
     data |-> [header |-> createBookDataFileHeader, slots |-> <<Book(10, 1)>>]]

InitFN ==
    /\ indexFile = TwoFreeNodesStore.idx
    /\ dataFile = TwoFreeNodesStore.data
    /\ inserted = {10}
    /\ crashed = FALSE
    /\ last = [op |-> "open"]
    /\ removed = FALSE
    /\ direct = FALSE

\* the operations that allocate index nodes, and the read-only ones
NextFN == NextFL \/ InsertKey

SpecFN == InitFN /\ [][NextFN]_vars

----------------------------------------------------------------------------
(* Properties.                                                             *)

\* C1: after records with pairwise distinct codes were added to the empty
\* store (and no key was removed), the keys reachable from rootAddress are
\* exactly the codes added: none is lost and no other value is a key.
C1_ReachableKeysAreInserted ==
    (~crashed /\ ~removed) => TreeKeys(indexFile) = inserted

\* C2: after any sequence of add and remove, the in-order traversal of the
\* tree reachable from rootAddress is strictly increasing.
C2_InOrderStrictlyIncreasing ==
    ~crashed => IsStrictlyIncreasing(TreeEntries(indexFile))

\* C3: a lookup of the code of the record that add has just stored shows
\* that record, and the offset the search hands to the read of the data
\* file is the slot in which add stored it.
C3_LookupAfterAdd ==
    (/\ last.op = "lookup"
     /\ last.after.op = "add"
     /\ last.after.ret = "added"
     /\ last.after.book.code = last.key)
    => (/\ last.ret = "shown"
        /\ last.book = last.after.book
        /\ last.offset = last.after.offset)

\* C4: for a key stored in the tree, twoThreeTreeSearch returns the offset
\* of a node that holds it, and the nodes it loads are one path from the root.
C4_SearchFindsStoredKey ==
    (last.op = "search" /\ last.key \in TreeKeys(indexFile))
    => (/\ ~last.overflow
        /\ IsNodeOffset(indexFile, last.ret)
        /\ HoldsKey(NodeAt(indexFile, last.ret), last.key)
        /\ IsRootPath(indexFile, last.loads))

\* C5: for a key not stored in the tree, twoThreeTreeSearch returns -1 and
\* never loads a node at offset -1.
C5_SearchMissingKey ==
    (last.op = "search" /\ last.key \notin TreeKeys(indexFile))
    => (/\ ~last.overflow
        /\ last.ret = -1
        /\ \A i \in 1..Len(last.loads) : last.loads[i] # -1)

\* C6: add of a record whose code is stored in the tree is rejected as a
\* duplicate and changes neither file.
C6_DuplicateRejected ==
    (last.op = "add" /\ last.stored) => (last.ret = "exists" /\ ~last.changed)

\* C7: when the tree was filled by addBookAux alone, every tree entry
\* (key, slot) names a slot of the data file that holds the record with that
\* code, every record slot is named by exactly one entry, and no entry has
\* slot -1.
C7_EntriesMatchSlots ==
    (~crashed /\ ~direct) =>
        LET entries == TreeEntries(indexFile)
        IN /\ \A i \in 1..Len(entries) :
                /\ entries[i][2] \in 0..(Len(dataFile.slots) - 1)
                /\ dataFile.slots[entries[i][2] + 1].code = entries[i][1]
           /\ \A slot \in 0..(Len(dataFile.slots) - 1) :
                Cardinality({ i \in 1..Len(entries) : entries[i][2] = slot }) = 1

C9_RemoveMissingKey ==
    (last.op = "remove" /\ ~last.stored)
    => (~last.overflow /\ last.ret = -1 /\ ~last.changed)

\* C10: removeKey on a well-formed tree returns, for every key the tree
\* holds.
C10_RemoveKeyTerminates ==
    (last.op = "remove" /\ last.wellFormed /\ last.stored) => ~last.overflow

\* the keys of a sequence of tree entries, in the order of the entries
EntryKeys(entries) == [i \in 1..Len(entries) |-> entries[i][1]]

\* C11: add of a record whose code is not stored, followed by removeKey of
\* that code, leaves the in-order key traversal of the tree equal to what it
\* was before the add.
C11_AddThenRemoveRestoresKeys ==
    (/\ last.op = "remove"
     /\ last.after.op = "add"
     /\ last.after.ret = "added"
     /\ ~last.after.stored
     /\ last.after.book.code = last.key)
    => (/\ ~last.overflow
        /\ EntryKeys(TreeEntries(indexFile)) = EntryKeys(last.after.entries))

\* C12: removeKey of the only key of a tree that is a single leaf root with
\* one key empties the tree: rootAddress becomes -1 and a search for the key
\* reports not found.
C12_RemoveOnlyKeyEmptiesTree ==
    (/\ last.op = "remove"
     /\ IsNodeOffset(last.before, getRootAddress(last.before))
     /\ NodeAt(last.before, getRootAddress(last.before)).nKeys = 1
     /\ isLeafNode(NodeAt(last.before, getRootAddress(last.before)))
     /\ NodeAt(last.before, getRootAddress(last.before)).left_key = last.key)
    => (/\ ~last.overflow
        /\ getRootAddress(indexFile) = -1
        /\ twoThreeTreeSearch(indexFile, last.key, NoUninit).ret = -1)

\* the slots of a data file that hold the record with this code
SlotsOf(data, code) == { s \in 0..(Len(data.slots) - 1) : data.slots[s + 1].code = code }

\* C13: after removeKey of a stored code has returned 0, the data slot that
\* held the record has code -1 and is the head of the data free-list, its next
\* pointer is the head the list had before, and the code is no longer
\* reachable in the tree.
C13_RemoveReleasesSlot ==
    (/\ last.op = "remove"
     /\ ~last.overflow
     /\ last.ret = 0
     /\ last.stored
     /\ SlotsOf(last.data, last.key) # {})
    => (/\ last.key \notin TreeKeys(indexFile)
        /\ \A s \in SlotsOf(last.data, last.key) :
              /\ dataFile.slots[s + 1].code = -1
              /\ dataFile.header.headEmptyPosition = s
              /\ dataFile.slots[s + 1].title = last.data.header.headEmptyPosition)

\* C14: when the data free-list is not empty, add stores the record in the
\* slot at the head of the list, makes headEmptyPosition the next pointer
\* that slot held and does not grow the data file; when the list is empty
\* the record goes to a fresh slot at the end of the file.
C14_AddReusesFreeSlot ==
    (last.op = "add" /\ last.ret = "added") =>
        LET head == last.data.header.headEmptyPosition
            size == Len(last.data.slots)
        IN IF head # -1
           THEN /\ last.offset = head
                /\ Len(dataFile.slots) = size
                /\ dataFile.slots[head + 1] = last.book
                /\ dataFile.header.headEmptyPosition = last.data.slots[head + 1].title
                /\ \A s \in (1..size) \ {head + 1} : dataFile.slots[s] = last.data.slots[s]
           ELSE /\ last.offset = size
                /\ Len(dataFile.slots) = size + 1
                /\ dataFile.slots[size + 1] = last.book
                /\ dataFile.header.headEmptyPosition = -1
                /\ \A s \in 1..size : dataFile.slots[s] = last.data.slots[s]

\* an add has stored its record in the head slot of a free-list of at least
\* two slots
C14_Witness ==
    /\ last.op = "add"
    /\ last.ret = "added"
    /\ last.data.header.headEmptyPosition # -1
    /\ last.data.slots[last.data.header.headEmptyPosition + 1].title # -1
    /\ dataFile.slots[last.offset + 1] = last.book

\* the index free-list from offset on is well formed: following left_child
\* it reaches -1 without visiting a node twice (fuel is the number of nodes
\* of the file), and every offset on it is a node of the file that is not
\* reachable from the root
RECURSIVE IsIndexFreeList(_, _, _)
IsIndexFreeList(f, offset, fuel) ==
    \/ offset = -1
    \/ /\ fuel > 0
       /\ IsNodeOffset(f, offset)
       /\ offset \notin Descendants(f, getRootAddress(f), MaxDepth)
       /\ IsIndexFreeList(f, NodeAt(f, offset).left_child, fuel - 1)

\* the data free-list from slot offset on is well formed: following
\* nextOffset it reaches -1 without visiting a slot twice, and every offset
\* on it is a slot of the file that no tree entry names
RECURSIVE IsDataFreeList(_, _, _, _)
IsDataFreeList(data, live, offset, fuel) ==
    \/ offset = -1
    \/ /\ fuel > 0
       /\ offset \in 0..(Len(data.slots) - 1)
       /\ offset \notin live
       /\ IsDataFreeList(data, live, data.slots[offset + 1].title, fuel - 1)

C16_InsertIntoEmptyTree ==
    (last.op = "insert" /\ getRootAddress(last.before) = -1) =>
        /\ ~last.overflow
        /\ NumNodes(indexFile) = NumNodes(last.before) + 1
        /\ getRootAddress(indexFile) = FileSize(last.before)
        /\ IsNodeOffset(indexFile, getRootAddress(indexFile))
        /\ NodeAt(indexFile, getRootAddress(indexFile))
              = Node23(1, last.key, -1, last.bookPosition, -1, -1, -1, -1)
        /\ SubSeq(indexFile, 2, Len(last.before)) = SubSeq(last.before, 2, Len(last.before))

\* insertKey has made the first key of the store the leaf root at offset 12
C16_Witness ==
    /\ last.op = "insert"
    /\ getRootAddress(last.before) = -1
    /\ getRootAddress(indexFile) = SizeofIndexFileHeader
    /\ NodeAt(indexFile, SizeofIndexFileHeader).left_key = last.key
    /\ TreeKeys(indexFile) = {last.key}

\* the number of levels of the tree: 0 for the empty tree
Height(f) ==
    With(LeafDepths(f, getRootAddress(f), 0, MaxDepth), LAMBDA depths :
       IF depths = {} THEN 0
       ELSE 1 + CHOOSE d \in depths : \A e \in depths : e <= d)

C18_TotalIsNumberOfKeys ==
    (last.op = "total" /\ WellFormed(indexFile))
    => (~last.overflow /\ last.ret = Len(TreeEntries(indexFile)))

\* C19: closing both files and opening them again as main opens them keeps
\* the store: every key the index search found before is found afterwards,
\* at the same node, and the data file holds the same records.
C19_ReopenKeepsStore ==
    last.op = "reopen" =>
        /\ dataFile.slots = last.data.slots
        /\ \A key \in Keys :
              With(twoThreeTreeSearch(last.before, key, NoUninit), LAMBDA was :
                 (was.uninit = {} /\ ~was.overflow) =>
                     With(twoThreeTreeSearch(indexFile, key, NoUninit), LAMBDA is :
                        is.uninit = {} /\ ~is.overflow /\ is.ret = was.ret))

\* the leaf that the descent for key reaches from offset, by the comparisons
\* of insertKeyAux; -1 when the descent leaves the nodes of the file
RECURSIVE TargetLeaf(_, _, _, _)
TargetLeaf(f, offset, key, fuel) ==
    IF fuel = 0 \/ ~IsNodeOffset(f, offset) THEN -1
    ELSE With(NodeAt(f, offset), LAMBDA node :
            IF isLeafNode(node) THEN offset
            ELSE IF key < node.left_key THEN TargetLeaf(f, node.left_child, key, fuel - 1)
            ELSE IF node.nKeys = 1 \/ key < node.right_key
                 THEN TargetLeaf(f, node.middle_child, key, fuel - 1)
                 ELSE TargetLeaf(f, node.right_child, key, fuel - 1))

\* C20: insertKey of a new key into a well-formed tree whose target leaf
\* holds one key makes that leaf a 2-key node with left_key < right_key that
\* holds the old key and the new one, and nothing else changes: no node is
\* allocated, no other node is written, no new root is created and
\* rootAddress stays as it was.
C20_InsertIntoOneKeyLeaf ==
    (/\ last.op = "insert"
     /\ WellFormed(last.before)
     /\ last.key \notin TreeKeys(last.before)
     /\ TargetLeaf(last.before, getRootAddress(last.before), last.key, MaxDepth) # -1
     /\ NodeAt(last.before,
               TargetLeaf(last.before, getRootAddress(last.before), last.key, MaxDepth)).nKeys = 1)
    => With(TargetLeaf(last.before, getRootAddress(last.before), last.key, MaxDepth),
            LAMBDA leaf :
          /\ ~last.overflow
          /\ Len(indexFile) = Len(last.before)
          /\ readFileHeader(indexFile) = readFileHeader(last.before)
          /\ NodeAt(indexFile, leaf).nKeys = 2
          /\ NodeAt(indexFile, leaf).left_key < NodeAt(indexFile, leaf).right_key
          /\ {NodeAt(indexFile, leaf).left_key, NodeAt(indexFile, leaf).right_key}
                = {NodeAt(last.before, leaf).left_key, last.key}
          /\ \A w \in 1..Len(last.before) :
                (w <= leaf \div SizeofWord \/ w > (leaf + SizeofNode23) \div SizeofWord)
                => indexFile[w] = last.before[w])

\* C21: when insertKey returns, the nodes it changed are on disk: after the
\* split of a full leaf root the old root is stored with nKeys 1, without
\* its right key and right slot, and the tree read back from the file holds
\* each key of the tree before, and the new key, exactly once.
C21_SplitNodeIsWritten ==
    (/\ last.op = "insert"
     /\ WellFormed(last.before)
     /\ IsNodeOffset(last.before, getRootAddress(last.before))
     /\ isLeafNode(NodeAt(last.before, getRootAddress(last.before)))
     /\ NodeAt(last.before, getRootAddress(last.before)).nKeys = 2
     /\ last.key \notin TreeKeys(last.before))
    => (/\ ~last.overflow
        /\ NodeAt(indexFile, getRootAddress(last.before)).nKeys = 1
        /\ NodeAt(indexFile, getRootAddress(last.before)).right_key = -1
        /\ NodeAt(indexFile, getRootAddress(last.before)).rightBook = -1
        /\ TreeKeys(indexFile) = TreeKeys(last.before) \cup {last.key}
        /\ Len(TreeEntries(indexFile)) = Len(TreeEntries(last.before)) + 1)

\* C22: insertKey called with a key that is stored in the tree fails (its
\* result is not the 0 of success) and writes nothing: the index file is as
\* it was, header and nodes.
C22_InsertStoredKeyRejected ==
    (last.op = "insert" /\ last.key \in TreeKeys(last.before))
    => (/\ ~last.overflow
        /\ last.ret # 0
        /\ indexFile = last.before)

Median(a, b, c) == CHOOSE m \in {a, b, c} : Cardinality({x \in {a, b, c} : x < m}) = 1

\* C24: when the split of a child returns a promoted entry to a parent that
\* holds one key, the parent becomes a 2-key node that holds the promoted
\* key with the promoted key's record slot, the offset of the new right
\* sibling is stored in the parent's child slot immediately to the right of
\* the promoted key, and no split is reported upward: no new root is made.
\* (The parent is the root of a well-formed tree, the child a full leaf.)
C24_ParentAbsorbsPromotedEntry ==
    (/\ last.op = "insert"
     /\ WellFormed(last.before)
     /\ last.key \notin TreeKeys(last.before)
     /\ IsNodeOffset(last.before, getRootAddress(last.before))
     /\ ~isLeafNode(NodeAt(last.before, getRootAddress(last.before)))
     /\ NodeAt(last.before, getRootAddress(last.before)).nKeys = 1
     /\ TargetLeaf(last.before, getRootAddress(last.before), last.key, MaxDepth) # -1
     /\ NodeAt(last.before,
               TargetLeaf(last.before, getRootAddress(last.before), last.key, MaxDepth)).nKeys = 2)
    => LET root == getRootAddress(last.before)
           was == NodeAt(last.before, root)
           is == NodeAt(indexFile, root)
           leaf == NodeAt(last.before, TargetLeaf(last.before, root, last.key, MaxDepth))
           promotedKey == Median(leaf.left_key, leaf.right_key, last.key)
           sibling == FileSize(last.before)
       IN /\ ~last.overflow
          /\ getRootAddress(indexFile) = root
          /\ NumNodes(indexFile) = NumNodes(last.before) + 1
          /\ is.nKeys = 2
          /\ is.left_child = was.left_child
          /\ IF promotedKey < was.left_key
             THEN /\ is.left_key = promotedKey /\ is.right_key = was.left_key
                  /\ is.rightBook = was.leftBook
                  /\ is.middle_child = sibling /\ is.right_child = was.middle_child
             ELSE /\ is.left_key = was.left_key /\ is.right_key = promotedKey
                  /\ is.leftBook = was.leftBook
                  /\ is.middle_child = was.middle_child /\ is.right_child = sibling

\* C25: when the key to delete lies in an internal node, it is replaced,
\* together with its record-slot pointer, by the smallest key of the subtree
\* at the child immediately to its right (middle_child for left_key,
\* right_child for right_key), and exactly that successor is then removed
\* from its leaf: the tree holds the entries it held, without the key.
\* (The internal node is the root of a well-formed tree.)
C25_InternalKeyReplacedBySuccessor ==
    (/\ last.op = "remove"
     /\ WellFormed(last.before)
     /\ IsNodeOffset(last.before, getRootAddress(last.before))
     /\ ~isLeafNode(NodeAt(last.before, getRootAddress(last.before)))
     /\ HoldsKey(NodeAt(last.before, getRootAddress(last.before)), last.key))
    => LET root == getRootAddress(last.before)
           was == NodeAt(last.before, root)
           is == NodeAt(indexFile, root)
           successor == IF was.left_key = last.key
                        THEN InOrder(last.before, was.middle_child, MaxDepth)[1]
                        ELSE InOrder(last.before, was.right_child, MaxDepth)[1]
       IN /\ ~last.overflow
          /\ last.ret = 0
          /\ getRootAddress(indexFile) = root
          /\ IF was.left_key = last.key
             THEN is.left_key = successor[1] /\ is.leftBook = successor[2]
             ELSE is.right_key = successor[1] /\ is.rightBook = successor[2]
          /\ TreeEntries(indexFile)
                = SelectSeq(TreeEntries(last.before), LAMBDA e : e[1] # last.key)

\* the leaves of the tree that hold two keys, key among them
TwoKeyLeavesWith(f, key) ==
    { o \in Descendants(f, getRootAddress(f), MaxDepth) :
        /\ isLeafNode(NodeAt(f, o))
        /\ NodeAt(f, o).nKeys = 2
        /\ HoldsKey(NodeAt(f, o), key) }

\* C26: removeKey of a key in a leaf that holds two keys leaves a 1-key leaf
\* that holds the other key in left_key with that key's own record slot in
\* leftBook, with right_key and rightBook reset to -1, and changes no other
\* node and not the header; for every 2-key leaf, root or not.
C26_RemoveFromTwoKeyLeaf ==
    (last.op = "remove" /\ WellFormed(last.before))
    => \A leaf \in TwoKeyLeavesWith(last.before, last.key) :
         LET was == NodeAt(last.before, leaf)
             is == NodeAt(indexFile, leaf)
         IN /\ ~last.overflow
            /\ Len(indexFile) = Len(last.before)
            /\ is.nKeys = 1
            /\ is.right_key = -1
            /\ is.rightBook = -1
            /\ IF was.left_key = last.key
               THEN is.left_key = was.right_key /\ is.leftBook = was.rightBook
               ELSE is.left_key = was.left_key /\ is.leftBook = was.leftBook
            /\ \A w \in 1..Len(last.before) :
                  (w <= leaf \div SizeofWord \/ w > (leaf + SizeofNode23) \div SizeofWord)
                  => indexFile[w] = last.before[w]

\* C27: createNode23 called with a non-empty index free-list writes the new
\* node at the offset that was the head of the list before the call, returns
\* that offset, and sets headEmptyPosition to the next pointer stored in that
\* released node.  (The call is the one insertKey makes for the first key of
\* a tree, from addBookAux.)
C27_CreateNodeReusesOldHead ==
    (/\ last.op = "add"
     /\ getRootAddress(last.before) = -1
     /\ readFileHeader(last.before).headEmptyPosition # -1)
    => LET head == readFileHeader(last.before).headEmptyPosition
       IN /\ NodeAt(indexFile, head).nKeys = 1
          /\ NodeAt(indexFile, head).left_key = last.book.code
          /\ isLeafNode(NodeAt(indexFile, head))
          /\ readFileHeader(indexFile).headEmptyPosition
                = NodeAt(last.before, head).left_child
          /\ \A w \in 4..Len(last.before) :
                (w <= head \div SizeofWord \/ w > (head + SizeofNode23) \div SizeofWord)
                => indexFile[w] = last.before[w]

C29_NodeShape ==
    \A o \in Descendants(indexFile, getRootAddress(indexFile), MaxDepth) :
       LET node == NodeAt(indexFile, o)
       IN /\ node.nKeys \in {1, 2}
          /\ node.nKeys = 2 => node.left_key < node.right_key
          /\ ~isLeafNode(node) =>
                /\ node.left_child # -1
                /\ node.middle_child # -1
                /\ (node.right_child # -1) <=> (node.nKeys = 2)

\* C30: the sibling chosen to repair an underflowing child is the adjacent
\* one: middle_child when the child is left_child or right_child; when the
\* child is middle_child, left_child if the parent has one key and
\* right_child if it has two.  A sibling is found for every child of every
\* well-formed parent, also of a 1-key parent, whose right_child is -1.
C30_SiblingIsAdjacentChild ==
    (last.op = "sibling" /\ WellFormed(indexFile))
    => LET parentNode == NodeAt(indexFile, last.parentAddress)
       IN /\ last.ret # -1
          /\ last.ret = IF last.nodeAddress = parentNode.middle_child
                        THEN (IF parentNode.nKeys = 1 THEN parentNode.left_child
                              ELSE parentNode.right_child)
                        ELSE parentNode.middle_child

\* the nodes of the tree one of whose child fields is offset
ParentsOf(f, offset) ==
    { p \in Descendants(f, getRootAddress(f), MaxDepth) :
        offset \in { NodeAt(f, p).left_child, NodeAt(f, p).middle_child,
                     NodeAt(f, p).right_child } \ {-1} }

\* the child of parent next to offset: middle_child for left_child and
\* right_child; for middle_child, left_child of a 1-key parent and
\* right_child of a 2-key parent
AdjacentSibling(f, parent, offset) ==
    IF offset = NodeAt(f, parent).middle_child
    THEN (IF NodeAt(f, parent).nKeys = 1 THEN NodeAt(f, parent).left_child
          ELSE NodeAt(f, parent).right_child)
    ELSE NodeAt(f, parent).middle_child

\* the leaves below the root that hold key as their only key and whose
\* adjacent sibling holds nKeys keys
UnderflowingLeaves(f, key, nKeys) ==
    { o \in Descendants(f, getRootAddress(f), MaxDepth) :
        /\ isLeafNode(NodeAt(f, o))
        /\ NodeAt(f, o).nKeys = 1
        /\ NodeAt(f, o).left_key = key
        /\ \E p \in ParentsOf(f, o) :
              /\ IsNodeOffset(f, AdjacentSibling(f, p, o))
              /\ NodeAt(f, AdjacentSibling(f, p, o)).nKeys = nKeys }

\* C31: when removeKey empties a leaf whose selected sibling holds one key,
\* the separating parent key and the sibling's key are folded into one 2-key
\* node, the emptied node is pushed on the index free-list, the parent loses
\* one key and one child, and a parent left with no key is repaired the same
\* way: the call returns, a node is on the free-list, and the file holds a
\* well-formed tree with the entries it held, without the key.
C31_UnderflowMergesWithOneKeySibling ==
    (/\ last.op = "remove"
     /\ WellFormed(last.before)
     /\ UnderflowingLeaves(last.before, last.key, 1) # {})
    => /\ ~last.overflow
       /\ last.ret = 0
       /\ readFileHeader(indexFile).headEmptyPosition # -1
       /\ WellFormed(indexFile)
       /\ TreeEntries(indexFile)
             = SelectSeq(TreeEntries(last.before), LAMBDA e : e[1] # last.key)

\* C32: when removeKey empties a leaf whose selected sibling holds two keys,
\* the repair rotates through the parent: the separating key moves down into
\* the emptied node and the adjacent extremal key of the sibling moves up.
\* The height is unchanged, no node is released, and the remaining entries
\* stay in order in a well-formed tree.
C32_UnderflowRotatesThroughParent ==
    (/\ last.op = "remove"
     /\ WellFormed(last.before)
     /\ UnderflowingLeaves(last.before, last.key, 2) # {})
    => /\ ~last.overflow
       /\ last.ret = 0
       /\ Height(indexFile) = Height(last.before)
       /\ readFileHeader(indexFile) = readFileHeader(last.before)
       /\ Len(indexFile) = Len(last.before)
       /\ WellFormed(indexFile)
       /\ TreeEntries(indexFile)
             = SelectSeq(TreeEntries(last.before), LAMBDA e : e[1] # last.key)

\* the root holds one key over two leaves with one key each: the removal of
\* any of the three keys leaves the root without a key
IsMinimalTwoLevelTree(f) ==
    /\ IsNodeOffset(f, getRootAddress(f))
    /\ ~isLeafNode(NodeAt(f, getRootAddress(f)))
    /\ NodeAt(f, getRootAddress(f)).nKeys = 1
    /\ \A c \in { NodeAt(f, getRootAddress(f)).left_child,
                   NodeAt(f, getRootAddress(f)).middle_child } :
          IsNodeOffset(f, c) /\ isLeafNode(NodeAt(f, c)) /\ NodeAt(f, c).nKeys = 1

\* C33: when the underflow of a removal reaches the root and leaves it with
\* no key, the root is released and rootAddress becomes the offset of its
\* single remaining child; rootAddress becomes -1 only when no key remains.
\* No remaining key becomes unreachable and the height decreases by at most 1.
C33_EmptyRootReplacedByChild ==
    (/\ last.op = "remove"
     /\ WellFormed(last.before)
     /\ IsMinimalTwoLevelTree(last.before)
     /\ last.key \in TreeKeys(last.before))
    => LET was == NodeAt(last.before, getRootAddress(last.before))
       IN /\ ~last.overflow
          /\ getRootAddress(indexFile) \in {was.left_child, was.middle_child}
          /\ TreeKeys(indexFile) = TreeKeys(last.before) \ {last.key}
          /\ Height(indexFile) >= Height(last.before) - 1

\* C34: within an add or an insertion the payload is written before the
\* header of the same file is rewritten: createNode23 writes the node and
\* then the index header, insertKey writes the header that names a new root
\* after createNode23 has written that root, and addBookAux writes the
\* record before it rewrites the header of the data file.
C34_PayloadBeforeHeader ==
    (last.op \in {"add", "insert"})
    => LET w == last.writes
       IN /\ \A i \in 1..Len(w) :
                (w[i].by = "createNode23" /\ w[i].what = "header")
                => (i > 1 /\ w[i - 1].by = "createNode23" /\ w[i - 1].what = "node")
          /\ \A i \in 1..Len(w) :
                (w[i].by = "insertKey" /\ w[i].what = "header")
                => \E j \in 1..(i - 1) : w[j].by = "createNode23" /\ w[j].what = "node"
          /\ \A i, j \in 1..Len(w) :
                (/\ w[i].file = "data" /\ w[i].what = "header"
                 /\ w[j].file = "data" /\ w[j].what = "record")
                => j < i

\* C35: addBookAux writes the record to its data slot before it inserts the
\* key into the index, so in every state of a run of adds each entry of the
\* index refers to a slot that holds the record with the entry's code.
C35_IndexEntriesReferToStoredRecords ==
    ~direct =>
       \A i \in 1..Len(TreeEntries(indexFile)) :
          LET key == TreeEntries(indexFile)[i][1]
              slot == TreeEntries(indexFile)[i][2]
          IN /\ slot \in 0..(Len(dataFile.slots) - 1)
             /\ dataFile.slots[slot + 1].code = key

\* the byte offsets of the nodes reachable from the root of f
LiveNodes(f) == Descendants(f, getRootAddress(f), MaxDepth)

\* C36: the offset at which createNode23 or handleEmptyNode writes a node
\* never lies inside the index header and never is the offset of a node that
\* is reachable from the root at that time, so allocating or releasing a
\* node never overwrites the header or a live node.
C36_NodeWritesSpareHeaderAndLiveNodes ==
    (last.op \in {"add", "insert", "remove"})
    => \A i \in 1..Len(last.writes) :
          (/\ last.writes[i].by \in {"createNode23", "handleEmptyNode"}
           /\ last.writes[i].what = "node")
          => /\ last.writes[i].at >= SizeofIndexFileHeader
             /\ last.writes[i].at \notin LiveNodes(last.before)

\* C37: for every node of the tree other than the root, at any depth and in
\* any child position, findParent returns the offset of the node one of
\* whose child pointers is the node's offset; it returns -1 only for the
\* root (or for an empty tree).
C37_FindParentReturnsParent ==
    (last.op = "parent" /\ WellFormed(indexFile))
    => IF last.nodeAddress = getRootAddress(indexFile)
       THEN last.ret = -1
       ELSE last.ret \in ParentsOf(indexFile, last.nodeAddress)

====
